---- MODULE Spec2Model ----
(***************************************************************************)
(* StacksTasker: the task lifecycle engine (apps/api task-engine, backed   *)
(* by Postgres) with its reviews and its routes, the webhook dispatcher,   *)
(* the wallet middleware, the payment contract, and the x402 packages: the *)
(* payment verifier, the codec, the express payment middleware and the     *)
(* fetch wrapper.                                                          *)
(*                                                                         *)
(* The engine is modelled at the granularity of its awaits: every          *)
(* `await query(...)` is one atomic database statement, and requests that  *)
(* are in flight interleave between statements.  The first read of a       *)
(* handler (getTask) and the synchronous checks that follow it form the    *)
(* Begin* action of the handler; every later statement is one action.      *)
(***************************************************************************)
EXTENDS Integers, Sequences, FiniteSets, TLC

\* ------------------------------------------------------------------ bounds
MaxInFlight == 2      \* requests concurrently in flight
MaxBids == 2          \* rows of the bids table
MaxCompleted == 2     \* cap of agents.tasks_completed
MaxAmount == 11       \* amounts of a payment, in minor units
MaxTime == 2          \* the clock, and the expiry of a payload
MaxCalls == 2         \* verifications of one payload against one requirement

\* ------------------------------------------------------------ input sets
TaskIds == {"t1"}
AgentIds == {"a1", "a2"}
Posters == {"p1"}                 \* addresses that create tasks
Addresses == {"p1", "p2"}         \* addresses a caller may present
Bounties == {20000}               \* bounty_micro_stx of a created task
WideBounties == {1, 99, 100, 199, 20000, 20050, 1000000, 999999999, 1000000000}
Slots == 1..MaxInFlight
BidIds == 1..MaxBids
ApiBounties == {20000, 1000000}   \* the bounties of the lifecycle test
HealthAnswers == {"ok", "not ok", "throws"}   \* how the health fetch ends
TxIds == {"0xfake"}               \* txId members of an approve body
ReviewTaskIds == {"t1", "t2"}     \* taskId members of a review body
Results == {"result", "result2"}  \* result members of a submit body
Ratings == 0..6                   \* rating members of a review body
ReviewRatings == {4, 5}           \* the ratings of the concurrent reviews
Comments == {<<>>, <<" ", " ">>, <<"o", "k">>}

Amounts == 0..MaxAmount
Times == 0..MaxTime

NONE == "none"
NoExpiry == 0 - 1
NoFee == 0 - 1

PLATFORM_WALLET == "SPRG5SJWZ4TE23RJY2Z9NJW9MVN23NMSEGVHH714"

TaskStatus ==
  {"open", "bidding", "assigned", "in-progress", "submitted", "completed",
   "cancelled", "closed"}

VARIABLES
  tasks,    \* the tasks table: task id -> row
  agents,   \* the agents table: agent id -> row
  bids,     \* the bids table: sequence of rows, the bid id is the index
  reviews,  \* the reviews table: the committed rows
  reqs,     \* the requests in flight: slot -> handler position and locals
  load,     \* the workload: how many requests run at once, the bounties posted,
            \* the ratings given, the results submitted
  hooks,    \* the dispatchEvent call in progress: the webhooks, the deliveries
  auth,     \* the last request through verifyWalletSignature, and its outcome
  vp,       \* the last verifyPayment call: its arguments, the time, its result
  gate,     \* the last request through paymentMiddleware, and its response
  wf,       \* the wrapped fetch call in progress, and the network calls it made
  codec     \* the last encodePayment / decodePayment* round trip

\* what no engine statement writes
other == <<reviews, load, hooks, auth, vp, gate, wf, codec>>

vars ==
  <<tasks, agents, bids, reviews, reqs, load, hooks, auth, vp, gate, wf, codec>>

\* ------------------------------------------------------------------ rows
NoTask ==
  [exists |-> FALSE, status |-> "open", posterAddress |-> NONE,
   bountyMicroStx |-> 0, assignedAgent |-> NONE, result |-> NONE,
   paymentTxId |-> NONE, platformFee |-> NoFee, platformWallet |-> NONE,
   rejectionReason |-> NONE, completedAt |-> NONE]

NoAgent ==
  [registered |-> FALSE, tasksCompleted |-> 0, totalEarned |-> 0,
   avgRating |-> 0, totalReviews |-> 0, lastActiveAt |-> FALSE]

Idle ==
  [op |-> NONE, pc |-> "idle", taskId |-> NONE, agentId |-> NONE,
   posterAddress |-> NONE, bidId |-> 0, taskStatus |-> NONE,
   taskAssignedAgent |-> NONE, paymentTxId |-> NONE, txId |-> NONE,
   result |-> NONE, rating |-> 0, comment |-> <<>>, avg |-> 0, count |-> 0, out |-> NONE,
   code |-> 0]

NoCall == [called |-> FALSE]

EmptyStore ==
  /\ tasks = [t \in TaskIds |-> NoTask]
  /\ agents = [a \in AgentIds |-> NoAgent]
  /\ bids = <<>>
  /\ reviews = {}
  /\ reqs = [p \in Slots |-> Idle]

\* concurrent requests on a task of bounty 0.020 STX
Init ==
  /\ EmptyStore
  /\ load = [inFlight |-> MaxInFlight, bounties |-> Bounties,
            ratings |-> Ratings,
            results |-> {"result"}]
  /\ vp = NoCall
  /\ gate = NoCall
  /\ wf = NoCall
  /\ codec = NoCall
  /\ hooks = NoCall
  /\ auth = NoCall

\* one request at a time, on a task of any of the bounties of WideBounties
InitSeq ==
  /\ EmptyStore
  /\ load = [inFlight |-> 1, bounties |-> WideBounties, ratings |-> Ratings,
            results |-> {"result"}]
  /\ vp = NoCall
  /\ gate = NoCall
  /\ wf = NoCall
  /\ codec = NoCall
  /\ hooks = NoCall
  /\ auth = NoCall

\* one request at a time, on a task of a bounty of the lifecycle test
InitApi ==
  /\ EmptyStore
  /\ load = [inFlight |-> 1, bounties |-> ApiBounties, ratings |-> Ratings,
            results |-> Results]
  /\ vp = NoCall
  /\ gate = NoCall
  /\ wf = NoCall
  /\ codec = NoCall
  /\ hooks = NoCall
  /\ auth = NoCall

\* ------------------------------------------------------- request plumbing
\* A request is served in the lowest free slot (which slot serves a request
\* is immaterial).
Free(p) ==
  /\ p <= load.inFlight
  /\ reqs[p].pc = "idle"
  /\ \A q \in Slots : q < p => reqs[q].pc # "idle"

InFlight(op) ==
  Cardinality({q \in Slots : reqs[q].op = op /\ reqs[q].pc \notin {"idle", "done"}})

\* What the routes answer to the result of the engine: 201 to a bid placed
\* or a review stored and 200 to any other row, res.status(400).json(result) to every
\* {error}, and 500 (the default of the framework) to a thrown error.
EngineStatus(op, out) ==
  IF out = "ok" THEN (IF op \in {"placeBid", "submitReview"} THEN 201 ELSE 200)
  ELSE IF out = "throw" THEN 500
  ELSE 400

\* the route answers `out` with status `code` before it calls the engine
RouteReturn(p, r, code, out) ==
  reqs' = [reqs EXCEPT ![p] =
             [Idle EXCEPT !.pc = "done", !.op = r.op, !.taskId = r.taskId,
                          !.out = out, !.code = code]]

\* the handler returns `out` (a row, written "ok", or {error: out}) and the
\* route answers it; its locals are gone
Return(p, r, out) ==
  reqs' = [reqs EXCEPT ![p] =
             [Idle EXCEPT !.pc = "done", !.op = r.op, !.taskId = r.taskId,
                          !.out = out, !.code = EngineStatus(r.op, out)]]

Goto(p, r, pc) ==
  reqs' = [reqs EXCEPT ![p] = [r EXCEPT !.pc = pc]]

\* The rows a transaction has updated stay locked until COMMIT or ROLLBACK;
\* a statement of another connection that updates such a row waits.
TaskLocked(t, p) ==
  \E q \in Slots \ {p} :
    /\ reqs[q].op = "approveTask"
    /\ reqs[q].pc \in {"ap_agent", "ap_commit"}
    /\ reqs[q].taskId = t

AgentLocked(a, p) ==
  \E q \in Slots \ {p} :
    \/ /\ reqs[q].op = "approveTask"
       /\ reqs[q].pc = "ap_commit"
       /\ reqs[q].taskAssignedAgent = a
    \/ /\ reqs[q].op = "submitReview"
       /\ reqs[q].pc = "rv_commit"
       /\ reqs[q].agentId = a

\* UPDATE agents SET last_active_at = $1 WHERE id = $2
TouchAgent(a) ==
  IF a \in AgentIds THEN [agents EXCEPT ![a].lastActiveAt = TRUE] ELSE agents

\* ------------------------------------------------------------ createTask
createTask(t, posterAddress, bountyMicroStx) ==
  /\ ~tasks[t].exists
  /\ bountyMicroStx \in load.bounties
  /\ tasks' = [tasks EXCEPT ![t] =
       [NoTask EXCEPT !.exists = TRUE, !.status = "open",
                      !.posterAddress = posterAddress,
                      !.bountyMicroStx = bountyMicroStx]]
  /\ UNCHANGED <<agents, bids, reqs, other>>

\* --------------------------------------------------------- registerAgent
registerAgent(a) ==
  /\ ~agents[a].registered
  /\ agents' = [agents EXCEPT ![a] = [NoAgent EXCEPT !.registered = TRUE]]
  /\ UNCHANGED <<tasks, bids, reqs, other>>

\* ------------------------------------------------------------ acceptTask
\* UPDATE tasks SET status = 'assigned', assigned_agent = $1 WHERE id = $3
AssignUpdate(t, a) ==
  [tasks EXCEPT ![t].status = "assigned", ![t].assignedAgent = a]

BeginAcceptTask(p, t, a) ==
  /\ Free(p)
  /\ LET r == [Idle EXCEPT !.op = "acceptTask", !.taskId = t, !.agentId = a]
         task == tasks[t]
     IN IF ~task.exists THEN Return(p, r, "Task not found")
        ELSE IF task.status # "open" /\ task.status # "bidding"
               THEN Return(p, r, "Task is <status>, not open")
        ELSE Goto(p, r, "at_getAgent")
  /\ UNCHANGED <<tasks, agents, bids, other>>

AcceptTaskGetAgent(p) ==
  /\ reqs[p].pc = "at_getAgent"
  /\ IF ~agents[reqs[p].agentId].registered
       THEN Return(p, reqs[p], "Agent not registered")
       ELSE Goto(p, reqs[p], "at_update")
  /\ UNCHANGED <<tasks, agents, bids, other>>

AcceptTaskUpdate(p) ==
  /\ reqs[p].pc = "at_update"
  /\ ~TaskLocked(reqs[p].taskId, p)
  /\ tasks' = AssignUpdate(reqs[p].taskId, reqs[p].agentId)
  /\ Goto(p, reqs[p], "at_touch")
  /\ UNCHANGED <<agents, bids, other>>

AcceptTaskTouch(p) ==
  /\ reqs[p].pc = "at_touch"
  /\ ~AgentLocked(reqs[p].agentId, p)
  /\ agents' = TouchAgent(reqs[p].agentId)
  /\ Return(p, reqs[p], "ok")
  /\ UNCHANGED <<tasks, bids, other>>

\* ------------------------------------------------------------- startTask
\* startTask without `task.assignedAgent !== agentId`
BeginStartTaskAnyAgent(p, t, a) ==
  /\ Free(p)
  /\ LET r == [Idle EXCEPT !.op = "startTask", !.taskId = t, !.agentId = a]
         task == tasks[t]
     IN IF ~task.exists THEN Return(p, r, "Task not found")
        ELSE IF task.status # "assigned"
               THEN Return(p, r, "Task is <status>, not assigned")
        ELSE Goto(p, r, "st_update")
  /\ UNCHANGED <<tasks, agents, bids, other>>

BeginStartTask(p, t, a) ==
  /\ Free(p)
  /\ LET r == [Idle EXCEPT !.op = "startTask", !.taskId = t, !.agentId = a]
         task == tasks[t]
     IN IF ~task.exists THEN Return(p, r, "Task not found")
        ELSE IF task.status # "assigned"
               THEN Return(p, r, "Task is <status>, not assigned")
        ELSE IF task.assignedAgent # a
               THEN Return(p, r, "Not assigned to this agent")
        ELSE Goto(p, r, "st_update")
  /\ UNCHANGED <<tasks, agents, bids, other>>

StartTaskUpdate(p) ==
  /\ reqs[p].pc = "st_update"
  /\ ~TaskLocked(reqs[p].taskId, p)
  /\ tasks' = [tasks EXCEPT ![reqs[p].taskId].status = "in-progress"]
  /\ Goto(p, reqs[p], "st_touch")
  /\ UNCHANGED <<agents, bids, other>>

StartTaskTouch(p) ==
  /\ reqs[p].pc = "st_touch"
  /\ ~AgentLocked(reqs[p].agentId, p)
  /\ agents' = TouchAgent(reqs[p].agentId)
  /\ Return(p, reqs[p], "ok")
  /\ UNCHANGED <<tasks, bids, other>>

\* ------------------------------------------------------------ cancelTask
BeginCancelTask(p, t, posterAddress) ==
  /\ Free(p)
  /\ LET r == [Idle EXCEPT !.op = "cancelTask", !.taskId = t,
                           !.posterAddress = posterAddress]
         task == tasks[t]
     IN IF ~task.exists THEN Return(p, r, "Task not found")
        ELSE IF task.status # "open" /\ task.status # "bidding"
               THEN Return(p, r, "Task is <status>, cannot cancel")
        ELSE IF task.posterAddress # posterAddress
               THEN Return(p, r, "Only the poster can cancel this task")
        ELSE Goto(p, r, "ct_update")
  /\ UNCHANGED <<tasks, agents, bids, other>>

CancelTaskUpdate(p) ==
  /\ reqs[p].pc = "ct_update"
  /\ ~TaskLocked(reqs[p].taskId, p)
  /\ tasks' = [tasks EXCEPT ![reqs[p].taskId].status = "cancelled"]
  /\ Return(p, reqs[p], "ok")
  /\ UNCHANGED <<agents, bids, other>>

\* ---------------------------------------------------------- submitResult
BeginSubmitResult(p, t, a, result) ==
  /\ Free(p)
  /\ result \in load.results
  /\ LET r == [Idle EXCEPT !.op = "submitResult", !.taskId = t, !.agentId = a,
                           !.result = result]
         task == tasks[t]
     IN IF ~task.exists THEN Return(p, r, "Task not found")
        ELSE IF task.status # "assigned" /\ task.status # "in-progress"
               THEN Return(p, r, "Task is <status>, not assigned or in-progress")
        ELSE IF task.assignedAgent # a
               THEN Return(p, r, "Not assigned to this agent")
        ELSE Goto(p, r, "sr_update")
  /\ UNCHANGED <<tasks, agents, bids, other>>

SubmitResultUpdate(p) ==
  /\ reqs[p].pc = "sr_update"
  /\ ~TaskLocked(reqs[p].taskId, p)
  /\ tasks' = [tasks EXCEPT ![reqs[p].taskId].result = reqs[p].result,
                            ![reqs[p].taskId].status = "submitted"]
  /\ Return(p, reqs[p], "ok")
  /\ UNCHANGED <<agents, bids, other>>

\* ---------------------------------------------------------- rejectResult
\* the UPDATE of rejectResult without `result = NULL`
RejectResultKeepsResult(p) ==
  /\ reqs[p].pc = "rr_update"
  /\ ~TaskLocked(reqs[p].taskId, p)
  /\ tasks' = [tasks EXCEPT ![reqs[p].taskId].status = "assigned",
                            ![reqs[p].taskId].rejectionReason = "reason"]
  /\ Return(p, reqs[p], "ok")
  /\ UNCHANGED <<agents, bids, other>>

BeginRejectResult(p, t, posterAddress) ==
  /\ Free(p)
  /\ LET r == [Idle EXCEPT !.op = "rejectResult", !.taskId = t,
                           !.posterAddress = posterAddress]
         task == tasks[t]
     IN IF ~task.exists THEN Return(p, r, "Task not found")
        ELSE IF task.status # "submitted"
               THEN Return(p, r, "Task is <status>, not submitted")
        ELSE IF task.posterAddress # posterAddress
               THEN Return(p, r, "Only the poster can reject submissions")
        ELSE Goto(p, r, "rr_update")
  /\ UNCHANGED <<tasks, agents, bids, other>>

RejectResultUpdate(p) ==
  /\ reqs[p].pc = "rr_update"
  /\ ~TaskLocked(reqs[p].taskId, p)
  /\ tasks' = [tasks EXCEPT ![reqs[p].taskId].status = "assigned",
                            ![reqs[p].taskId].rejectionReason = "reason",
                            ![reqs[p].taskId].result = NONE]
  /\ Return(p, reqs[p], "ok")
  /\ UNCHANGED <<agents, bids, other>>

\* ----------------------------------------------------------- approveTask
\* the fee as Math.round(bounty * PLATFORM_FEE_PERCENT) would give it
FeeMicroRounded(bountyMicro) == (bountyMicro + 50) \div 100

\* const feeMicro = bountyMicro / 100n (BigInt division truncates)
FeeMicro(bountyMicro) == bountyMicro \div 100

\* the payout without the platform fee taken off
PayoutMicroWhole(bountyMicro) == bountyMicro

PayoutMicro(bountyMicro) == bountyMicro - FeeMicro(bountyMicro)

\* UPDATE tasks SET status = 'completed', payment_tx_id = $1, platform_fee = $2,
\*   platform_wallet = $3, completed_at = $4 WHERE id = $5
CompleteUpdate(rows, t, paymentTxId) ==
  [rows EXCEPT ![t].status = "completed",
               ![t].paymentTxId = paymentTxId,
               ![t].platformFee = FeeMicro(rows[t].bountyMicroStx),
               ![t].platformWallet = PLATFORM_WALLET,
               ![t].completedAt = "now"]

\* UPDATE agents SET tasks_completed = tasks_completed + 1,
\*   total_earned = total_earned + $1, last_active_at = $2 WHERE id = $3
CreditUpdate(rows, a, payout) ==
  IF a \in AgentIds
    THEN [rows EXCEPT ![a].tasksCompleted = @ + 1,
                      ![a].totalEarned = @ + payout,
                      ![a].lastActiveAt = TRUE]
    ELSE rows

\* the UPDATE tasks of approveTask run outside the transaction (autocommit)
TasksDuringTxAutocommit(t, paymentTxId) == CompleteUpdate(tasks, t, paymentTxId)

\* What the other connections see of the tasks table after the UPDATE tasks
\* of the transaction and before its COMMIT: the committed rows.
TasksDuringTx(t, paymentTxId) == tasks

\* What is stored after ROLLBACK: the rows as they were committed.
TasksAfterRollback(t) == tasks

MaxTasksCompleted ==
  LET S == {agents[a].tasksCompleted : a \in AgentIds}
  IN CHOOSE m \in S : \A n \in S : n <= m

BeginApproveTask(p, t) ==
  /\ Free(p)
  /\ MaxTasksCompleted + InFlight("approveTask") < MaxCompleted
  /\ LET r == [Idle EXCEPT !.op = "approveTask", !.taskId = t]
         task == tasks[t]
     IN IF ~task.exists THEN Return(p, r, "Task not found")
        ELSE IF task.status # "submitted"
               THEN Return(p, r, "Task is <status>, not submitted")
        ELSE Goto(p, [r EXCEPT !.taskAssignedAgent = task.assignedAgent],
                  "ap_health")
  /\ UNCHANGED <<tasks, agents, bids, other>>

\* POST /tasks/:id/approve, the route that reads posterAddress from the body:
\* getTask, the 404 and the two 403, then approveTask(req.params.id).  The
\* body may carry a txId; the handler reads posterAddress only.
BeginApproveRoute(p, t, posterAddress, txId) ==
  /\ Free(p)
  /\ MaxTasksCompleted + InFlight("approveTask") < MaxCompleted
  /\ LET r == [Idle EXCEPT !.op = "approveTask", !.taskId = t,
                           !.posterAddress = posterAddress, !.txId = txId]
         existing == tasks[t]
     IN IF ~existing.exists THEN RouteReturn(p, r, 404, "Task not found")
        ELSE IF posterAddress = NONE
               THEN RouteReturn(p, r, 403, "Missing posterAddress")
        ELSE IF existing.posterAddress # posterAddress
               THEN RouteReturn(p, r, 403, "Only the task poster can approve")
        ELSE Goto(p, r, "ap_getTask")
  /\ UNCHANGED <<tasks, agents, bids, other>>

\* approveTask called by that route: getTask and the status check
ApproveTaskGetTask(p) ==
  /\ reqs[p].pc = "ap_getTask"
  /\ LET task == tasks[reqs[p].taskId]
     IN IF ~task.exists THEN Return(p, reqs[p], "Task not found")
        ELSE IF task.status # "submitted"
               THEN Return(p, reqs[p], "Task is <status>, not submitted")
        ELSE Goto(p, [reqs[p] EXCEPT !.taskAssignedAgent = task.assignedAgent],
                  "ap_health")
  /\ UNCHANGED <<tasks, agents, bids, other>>

\* the health request outside the try block: a fetch that throws ends the call
ApproveTaskHealthUncaught(p, health) ==
  /\ reqs[p].pc = "ap_health"
  /\ IF health = "throws"
       THEN Return(p, reqs[p], "throw")
       ELSE Goto(p, [reqs[p] EXCEPT !.paymentTxId =
                       IF health = "ok" THEN "stx_" ELSE "sim_"], "ap_task")
  /\ UNCHANGED <<tasks, agents, bids, other>>

\* await fetch(`${facilitatorUrl}/health`): answers ok, answers non-ok, throws
ApproveTaskHealth(p, health) ==
  /\ reqs[p].pc = "ap_health"
  /\ Goto(p, [reqs[p] EXCEPT !.paymentTxId =
                 IF health = "ok" THEN "stx_" ELSE "sim_"], "ap_task")
  /\ UNCHANGED <<tasks, agents, bids, other>>

\* getClient, BEGIN, UPDATE tasks ... RETURNING *
ApproveTaskUpdateTask(p) ==
  /\ reqs[p].pc = "ap_task"
  /\ ~TaskLocked(reqs[p].taskId, p)
  /\ tasks' = TasksDuringTx(reqs[p].taskId, reqs[p].paymentTxId)
  /\ Goto(p, reqs[p], "ap_agent")
  /\ UNCHANGED <<agents, bids, other>>

\* if (task.assignedAgent) UPDATE agents ...; the statement succeeds or throws
ApproveTaskUpdateAgent(p) ==
  /\ reqs[p].pc = "ap_agent"
  /\ ~AgentLocked(reqs[p].taskAssignedAgent, p)
  /\ \E fails \in BOOLEAN :
       IF fails
         THEN /\ tasks' = TasksAfterRollback(reqs[p].taskId)
              /\ Return(p, reqs[p], "throw")
         ELSE /\ tasks' = tasks
              /\ Goto(p, reqs[p], "ap_commit")
  /\ UNCHANGED <<agents, bids, other>>

\* COMMIT succeeds and both rows become visible, or throws and ROLLBACK runs
ApproveTaskCommit(p) ==
  /\ reqs[p].pc = "ap_commit"
  /\ \E fails \in BOOLEAN :
       IF fails
         THEN /\ tasks' = TasksAfterRollback(reqs[p].taskId)
              /\ agents' = agents
              /\ Return(p, reqs[p], "throw")
         ELSE /\ tasks' = CompleteUpdate(tasks, reqs[p].taskId, reqs[p].paymentTxId)
              /\ agents' = CreditUpdate(agents, reqs[p].taskAssignedAgent,
                                        PayoutMicro(tasks[reqs[p].taskId].bountyMicroStx))
              /\ Return(p, reqs[p], "ok")
  /\ UNCHANGED <<bids, other>>

\* ------------------------------------------------------------- closeTask
BeginCloseTask(p, t, posterAddress) ==
  /\ Free(p)
  /\ LET r == [Idle EXCEPT !.op = "closeTask", !.taskId = t,
                           !.posterAddress = posterAddress]
         task == tasks[t]
     IN IF ~task.exists THEN Return(p, r, "Task not found")
        ELSE IF task.status # "completed"
               THEN Return(p, r, "Task is <status>, not completed")
        ELSE IF task.posterAddress # posterAddress
               THEN Return(p, r, "Only the poster can close this task")
        ELSE Goto(p, r, "cl_update")
  /\ UNCHANGED <<tasks, agents, bids, other>>

CloseTaskUpdate(p) ==
  /\ reqs[p].pc = "cl_update"
  /\ ~TaskLocked(reqs[p].taskId, p)
  /\ tasks' = [tasks EXCEPT ![reqs[p].taskId].status = "closed"]
  /\ Return(p, reqs[p], "ok")
  /\ UNCHANGED <<agents, bids, other>>

\* -------------------------------------------------------------- placeBid
\* the same query with its two parameters in the wrong order
ExistingBidsSwapped(t, a) ==
  {i \in 1..Len(bids) : bids[i].taskId = a /\ bids[i].agentId = t}

\* SELECT id FROM bids WHERE task_id = $1 AND agent_id = $2
ExistingBids(t, a) ==
  {i \in 1..Len(bids) : bids[i].taskId = t /\ bids[i].agentId = a}

BeginPlaceBid(p, t, a) ==
  /\ Free(p)
  /\ Len(bids) + InFlight("placeBid") < MaxBids
  /\ LET r == [Idle EXCEPT !.op = "placeBid", !.taskId = t, !.agentId = a]
         task == tasks[t]
     IN IF ~task.exists THEN Return(p, r, "Task not found")
        ELSE IF task.status # "open" /\ task.status # "bidding"
               THEN Return(p, r, "Task is <status>, not accepting bids")
        ELSE Goto(p, [r EXCEPT !.taskStatus = task.status], "pb_getAgent")
  /\ UNCHANGED <<tasks, agents, bids, other>>

PlaceBidGetAgent(p) ==
  /\ reqs[p].pc = "pb_getAgent"
  /\ IF ~agents[reqs[p].agentId].registered
       THEN Return(p, reqs[p], "Agent not registered")
       ELSE Goto(p, reqs[p], "pb_existing")
  /\ UNCHANGED <<tasks, agents, bids, other>>

PlaceBidExisting(p) ==
  /\ reqs[p].pc = "pb_existing"
  /\ IF ExistingBids(reqs[p].taskId, reqs[p].agentId) # {}
       THEN Return(p, reqs[p], "Agent already placed a bid on this task")
       ELSE Goto(p, reqs[p], "pb_insert")
  /\ UNCHANGED <<tasks, agents, bids, other>>

\* INSERT INTO bids (the table has no constraint but the primary key)
PlaceBidInsert(p) ==
  /\ reqs[p].pc = "pb_insert"
  /\ bids' = Append(bids, [taskId |-> reqs[p].taskId, agentId |-> reqs[p].agentId])
  /\ Goto(p, reqs[p], IF reqs[p].taskStatus = "open" THEN "pb_bidding" ELSE "pb_touch")
  /\ UNCHANGED <<tasks, agents, other>>

\* if (task.status === 'open') UPDATE tasks SET status = 'bidding'
PlaceBidBidding(p) ==
  /\ reqs[p].pc = "pb_bidding"
  /\ ~TaskLocked(reqs[p].taskId, p)
  /\ tasks' = [tasks EXCEPT ![reqs[p].taskId].status = "bidding"]
  /\ Goto(p, reqs[p], "pb_touch")
  /\ UNCHANGED <<agents, bids, other>>

PlaceBidTouch(p) ==
  /\ reqs[p].pc = "pb_touch"
  /\ ~AgentLocked(reqs[p].agentId, p)
  /\ agents' = TouchAgent(reqs[p].agentId)
  /\ Return(p, reqs[p], "ok")
  /\ UNCHANGED <<tasks, bids, other>>

\* ------------------------------------------------------------- acceptBid
BeginAcceptBid(p, t, bidId, posterAddress) ==
  /\ Free(p)
  /\ LET r == [Idle EXCEPT !.op = "acceptBid", !.taskId = t, !.bidId = bidId,
                           !.posterAddress = posterAddress]
         task == tasks[t]
     IN IF ~task.exists THEN Return(p, r, "Task not found")
        ELSE IF task.status # "open" /\ task.status # "bidding"
               THEN Return(p, r, "Task is <status>, cannot accept bids")
        ELSE IF task.posterAddress # posterAddress
               THEN Return(p, r, "Only the poster can accept bids")
        ELSE Goto(p, r, "ab_getBid")
  /\ UNCHANGED <<tasks, agents, bids, other>>

\* SELECT * FROM bids WHERE id = $1 AND task_id = $2
AcceptBidGetBid(p) ==
  /\ reqs[p].pc = "ab_getBid"
  /\ IF reqs[p].bidId \in 1..Len(bids) /\ bids[reqs[p].bidId].taskId = reqs[p].taskId
       THEN Goto(p, [reqs[p] EXCEPT !.agentId = bids[reqs[p].bidId].agentId],
                 "ab_getAgent")
       ELSE Return(p, reqs[p], "Bid not found")
  /\ UNCHANGED <<tasks, agents, bids, other>>

AcceptBidGetAgent(p) ==
  /\ reqs[p].pc = "ab_getAgent"
  /\ IF ~agents[reqs[p].agentId].registered
       THEN Return(p, reqs[p], "Agent not found")
       ELSE Goto(p, reqs[p], "ab_update")
  /\ UNCHANGED <<tasks, agents, bids, other>>

AcceptBidUpdate(p) ==
  /\ reqs[p].pc = "ab_update"
  /\ ~TaskLocked(reqs[p].taskId, p)
  /\ tasks' = AssignUpdate(reqs[p].taskId, reqs[p].agentId)
  /\ Goto(p, reqs[p], "ab_touch")
  /\ UNCHANGED <<agents, bids, other>>

AcceptBidTouch(p) ==
  /\ reqs[p].pc = "ab_touch"
  /\ ~AgentLocked(reqs[p].agentId, p)
  /\ agents' = TouchAgent(reqs[p].agentId)
  /\ Return(p, reqs[p], "ok")
  /\ UNCHANGED <<tasks, bids, other>>

\* ---------------------------------------------------------- submitReview
\* the row a submitReview request inserts
ReviewRow(r) == [taskId |-> r.taskId, agentId |-> r.agentId, rating |-> r.rating]

\* req.comment.trim().length === 0
Blank(comment) == \A i \in 1..Len(comment) : comment[i] = " "

RECURSIVE SumRatings(_)
SumRatings(S) ==
  IF S = {} THEN 0
  ELSE LET x == CHOOSE y \in S : TRUE
       IN x.rating + SumRatings(S \ {x})

\* parseFloat(AVG(rating).toFixed(1)), in tenths: the mean rounded to one
\* decimal, a tie upwards
AvgRating(S) == (20 * SumRatings(S) + Cardinality(S)) \div (2 * Cardinality(S))

\* The rows of an agent that a statement of the transaction of request r
\* reads under READ COMMITTED: the committed rows and the row it inserted.
VisibleReviews(r) == {x \in reviews : x.agentId = r.agentId} \cup {ReviewRow(r)}

\* Another transaction has inserted a row of the same (task_id, agent_id) and
\* has not ended: an INSERT of that key waits on the unique index.
ReviewKeyLocked(r, p) ==
  \E q \in Slots \ {p} :
    /\ reqs[q].op = "submitReview"
    /\ reqs[q].pc \in {"rv_select", "rv_update", "rv_commit"}
    /\ reqs[q].taskId = r.taskId
    /\ reqs[q].agentId = r.agentId

\* const agent = await getAgent(agentId)
BeginSubmitReview(p, a, t, reviewerAddress, rating, comment) ==
  /\ Free(p)
  /\ rating \in load.ratings
  /\ LET r == [Idle EXCEPT !.op = "submitReview", !.agentId = a, !.taskId = t,
                           !.posterAddress = reviewerAddress,
                           !.rating = rating, !.comment = comment]
     IN IF ~agents[a].registered THEN Return(p, r, "Agent not found")
        ELSE Goto(p, r, "rv_getTask")
  /\ UNCHANGED <<tasks, agents, bids, other>>

\* the checks of submitReview without `task.posterAddress !== req.reviewerAddress`
SubmitReviewGetTaskAnyReviewer(p) ==
  /\ reqs[p].pc = "rv_getTask"
  /\ LET r == reqs[p]
         task == IF r.taskId \in DOMAIN tasks THEN tasks[r.taskId] ELSE NoTask
     IN IF ~task.exists THEN Return(p, r, "Task not found")
        ELSE IF task.status # "completed" /\ task.status # "closed"
               THEN Return(p, r, "Task not completed yet")
        ELSE IF task.assignedAgent # r.agentId
               THEN Return(p, r, "This agent was not assigned to this task")
        ELSE IF r.rating < 1 \/ r.rating > 5
               THEN Return(p, r, "Rating must be between 1 and 5")
        ELSE IF Blank(r.comment) THEN Return(p, r, "Comment is required")
        ELSE Goto(p, r, "rv_insert")
  /\ UNCHANGED <<tasks, agents, bids, other>>

\* const task = await getTask(req.taskId), and the checks up to getClient
SubmitReviewGetTask(p) ==
  /\ reqs[p].pc = "rv_getTask"
  /\ LET r == reqs[p]
         task == IF r.taskId \in DOMAIN tasks THEN tasks[r.taskId] ELSE NoTask
     IN IF ~task.exists THEN Return(p, r, "Task not found")
        ELSE IF task.status # "completed" /\ task.status # "closed"
               THEN Return(p, r, "Task not completed yet")
        ELSE IF task.assignedAgent # r.agentId
               THEN Return(p, r, "This agent was not assigned to this task")
        ELSE IF task.posterAddress # r.posterAddress
               THEN Return(p, r, "Only the task poster can review")
        ELSE IF r.rating < 1 \/ r.rating > 5
               THEN Return(p, r, "Rating must be between 1 and 5")
        ELSE IF Blank(r.comment) THEN Return(p, r, "Comment is required")
        ELSE Goto(p, r, "rv_insert")
  /\ UNCHANGED <<tasks, agents, bids, other>>

\* the INSERT into a reviews table without UNIQUE(task_id, agent_id)
SubmitReviewInsertNoUnique(p) ==
  /\ reqs[p].pc = "rv_insert"
  /\ Goto(p, reqs[p], "rv_select")
  /\ UNCHANGED <<tasks, agents, bids, other>>

\* BEGIN, INSERT INTO reviews: UNIQUE(task_id, agent_id) raises 23505 and the
\* catch block runs ROLLBACK and returns the duplicate error
SubmitReviewInsert(p) ==
  /\ reqs[p].pc = "rv_insert"
  /\ ~ReviewKeyLocked(reqs[p], p)
  /\ IF \E x \in reviews : x.taskId = reqs[p].taskId /\ x.agentId = reqs[p].agentId
       THEN Return(p, reqs[p], "Already reviewed this task")
       ELSE Goto(p, reqs[p], "rv_select")
  /\ UNCHANGED <<tasks, agents, bids, other>>

\* SELECT AVG(rating), COUNT(*)::int FROM reviews WHERE agent_id = $1
SubmitReviewSelect(p) ==
  /\ reqs[p].pc = "rv_select"
  /\ Goto(p, [reqs[p] EXCEPT !.avg = AvgRating(VisibleReviews(reqs[p])),
                             !.count = Cardinality(VisibleReviews(reqs[p]))],
          "rv_update")
  /\ UNCHANGED <<tasks, agents, bids, other>>

\* UPDATE agents SET avg_rating = $1, total_reviews = $2 WHERE id = $3: waits
\* for the row, and is visible to the others at COMMIT
SubmitReviewUpdate(p) ==
  /\ reqs[p].pc = "rv_update"
  /\ ~AgentLocked(reqs[p].agentId, p)
  /\ Goto(p, reqs[p], "rv_commit")
  /\ UNCHANGED <<tasks, agents, bids, other>>

\* COMMIT succeeds and the row and the agent's figures become visible, or
\* throws: ROLLBACK, and the error is not 23505 and is thrown again
SubmitReviewCommit(p) ==
  /\ reqs[p].pc = "rv_commit"
  /\ \E fails \in BOOLEAN :
       IF fails
         THEN /\ reviews' = reviews
              /\ agents' = agents
              /\ Return(p, reqs[p], "throw")
         ELSE /\ reviews' = reviews \cup {ReviewRow(reqs[p])}
              /\ agents' = [agents EXCEPT
                              ![reqs[p].agentId].avgRating = reqs[p].avg,
                              ![reqs[p].agentId].totalReviews = reqs[p].count]
              /\ Return(p, reqs[p], "ok")
  /\ UNCHANGED <<tasks, bids, load, hooks, auth, vp, gate, wf, codec>>

\* ---------------------------------------------------------------- routes
\* The route handler sends the response and the request is over.
Respond(p) ==
  /\ reqs[p].pc = "done"
  /\ reqs' = [reqs EXCEPT ![p] = Idle]
  /\ UNCHANGED <<tasks, agents, bids, other>>

\* ========================================================= verifyPayment
\* Amounts travel as decimal strings: a string is the sequence of its digits.
RECURSIVE ToDecimal(_)
ToDecimal(n) ==
  IF n < 10 THEN <<n>> ELSE Append(ToDecimal(n \div 10), n % 10)

\* BigInt(amount)
RECURSIVE BigInt(_)
BigInt(digits) ==
  IF Len(digits) = 0 THEN 0
  ELSE 10 * BigInt(SubSeq(digits, 1, Len(digits) - 1)) + digits[Len(digits)]

\* a >= b on strings, as JavaScript compares strings: by code units
RECURSIVE StringGeq(_, _)
StringGeq(a, b) ==
  IF Len(b) = 0 THEN TRUE
  ELSE IF Len(a) = 0 THEN FALSE
  ELSE IF Head(a) # Head(b) THEN Head(a) > Head(b)
  ELSE StringGeq(Tail(a), Tail(b))

AmountCoversAsStrings(payloadAmount, requiredAmount) ==
  StringGeq(payloadAmount, requiredAmount)

\* check 6: BigInt(payload.amount) >= BigInt(requirement.amount)
AmountCovers(payloadAmount, requiredAmount) ==
  BigInt(payloadAmount) >= BigInt(requiredAmount)

Rejected(reason) == [valid |-> FALSE, reason |-> reason]

Accepted(payload) ==
  [valid |-> TRUE,
   details |-> [amount |-> payload.amount, recipient |-> payload.recipient,
                nonce |-> payload.nonce]]

verifyPaymentRecipientFirst(payload, requirement, now) ==
  IF payload.scheme # requirement.scheme THEN Rejected("Scheme mismatch")
  ELSE IF payload.recipient # requirement.recipient
         THEN Rejected("Recipient mismatch")
  ELSE IF payload.network # requirement.network THEN Rejected("Network mismatch")
  ELSE IF payload.chainId # requirement.chainId THEN Rejected("Chain ID mismatch")
  ELSE IF payload.asset # requirement.asset THEN Rejected("Asset mismatch")
  ELSE IF ~AmountCovers(payload.amount, requirement.amount)
         THEN Rejected("Insufficient amount: got <X>, need <Y>")
  ELSE IF payload.expiresAt # NoExpiry /\ payload.expiresAt < now
         THEN Rejected("Payment expired")
  ELSE Accepted(payload)

\* check 7 with the bound included: a payload expiring now is refused
verifyPaymentExpiresAtNow(payload, requirement, now) ==
  IF payload.scheme # requirement.scheme THEN Rejected("Scheme mismatch")
  ELSE IF payload.network # requirement.network THEN Rejected("Network mismatch")
  ELSE IF payload.chainId # requirement.chainId THEN Rejected("Chain ID mismatch")
  ELSE IF payload.recipient # requirement.recipient
         THEN Rejected("Recipient mismatch")
  ELSE IF payload.asset # requirement.asset THEN Rejected("Asset mismatch")
  ELSE IF ~AmountCovers(payload.amount, requirement.amount)
         THEN Rejected("Insufficient amount: got <X>, need <Y>")
  ELSE IF payload.expiresAt # NoExpiry /\ payload.expiresAt <= now
         THEN Rejected("Payment expired")
  ELSE Accepted(payload)

\* a verifier with a nonce store: a nonce it has seen is refused
verifyPaymentNonceOnce(payload, requirement, now) ==
  IF vp.called /\ vp.payload.nonce = payload.nonce
    THEN Rejected("Nonce already used")
  ELSE IF payload.scheme # requirement.scheme THEN Rejected("Scheme mismatch")
  ELSE IF payload.network # requirement.network THEN Rejected("Network mismatch")
  ELSE IF payload.chainId # requirement.chainId THEN Rejected("Chain ID mismatch")
  ELSE IF payload.recipient # requirement.recipient
         THEN Rejected("Recipient mismatch")
  ELSE IF payload.asset # requirement.asset THEN Rejected("Asset mismatch")
  ELSE IF ~AmountCovers(payload.amount, requirement.amount)
         THEN Rejected("Insufficient amount: got <X>, need <Y>")
  ELSE IF payload.expiresAt # NoExpiry /\ payload.expiresAt < now
         THEN Rejected("Payment expired")
  ELSE Accepted(payload)

verifyPayment(payload, requirement, now) ==
  IF payload.scheme # requirement.scheme THEN Rejected("Scheme mismatch")
  ELSE IF payload.network # requirement.network THEN Rejected("Network mismatch")
  ELSE IF payload.chainId # requirement.chainId THEN Rejected("Chain ID mismatch")
  ELSE IF payload.recipient # requirement.recipient
         THEN Rejected("Recipient mismatch")
  ELSE IF payload.asset # requirement.asset THEN Rejected("Asset mismatch")
  ELSE IF ~AmountCovers(payload.amount, requirement.amount)
         THEN Rejected("Insufficient amount: got <X>, need <Y>")
  ELSE IF payload.expiresAt # NoExpiry /\ payload.expiresAt < now
         THEN Rejected("Payment expired")
  ELSE Accepted(payload)

\* the requirement of the tests (makeRequirement), for a price of `amount`
Requirement(amount) ==
  [scheme |-> "exact", network |-> "stacks", chainId |-> "TESTNET",
   recipient |-> "ST1PQHQKV0RJXZFY1DGX8MNSNYVE3VGZJSRTPGZGM",
   amount |-> ToDecimal(amount), asset |-> "STX"]

Payloads(amount) ==
  [scheme : {"exact", "subscription"}, network : {"stacks", "bitcoin"},
   chainId : {"TESTNET", "MAINNET"},
   recipient : {"ST1PQHQKV0RJXZFY1DGX8MNSNYVE3VGZJSRTPGZGM",
                "ST1DIFFERENT_ADDRESS_COMPLETELY_HERE00"},
   amount : {ToDecimal(amount)}, asset : {"STX", "BTC"}, nonce : {1},
   expiresAt : {NoExpiry} \cup Times]

\* One call of verifyPayment: a payload paying `paid` against a requirement
\* of `price`, at time `now`.
VerifyPaymentCall ==
  /\ ~vp.called
  /\ \E paid \in Amounts, price \in Amounts, now \in Times :
       \E payload \in Payloads(paid) :
         vp' = [called |-> TRUE, calls |-> 1, paid |-> paid, price |-> price,
                payload |-> payload, requirement |-> Requirement(price),
                now |-> now,
                result |-> verifyPayment(payload, Requirement(price), now)]
  /\ UNCHANGED <<tasks, agents, bids, reviews, reqs, load, hooks, auth, gate, wf, codec>>

\* The same payload is verified against the same requirement once more, at
\* the time `now`: the verifier has no store of the payloads it has accepted.
VerifyPaymentAgain ==
  /\ vp.called
  /\ vp.calls < MaxCalls
  /\ \E now \in Times :
       vp' = [vp EXCEPT !.calls = @ + 1, !.now = now,
                        !.result = verifyPayment(vp.payload, vp.requirement, now)]
  /\ UNCHANGED <<tasks, agents, bids, reviews, reqs, load, hooks, auth, gate, wf, codec>>

\* the caller has taken the result; the verifier keeps nothing of the call
VerifyPaymentReturn ==
  /\ vp.called
  /\ vp' = NoCall
  /\ UNCHANGED <<tasks, agents, bids, reviews, reqs, load, hooks, auth, gate, wf, codec>>

\* =========================================================== the codec
\* A header value is the base64 text of a JSON object.  The JSON text is
\* modelled by its members: key -> token, a token being the text of the
\* value and whether it stands in quotes (a string) or not (a number).  An
\* object member whose value is undefined is left out by JSON.stringify, and
\* reading a missing member gives undefined: undefined is NoExpiry for
\* expiresAt and NONE for description and resource.

\* CHAIN_IDS, in decimal digits (0x80000000 = 2147483648)
CHAIN_IDS ==
  [MAINNET |-> <<1>>, TESTNET |-> <<2, 1, 4, 7, 4, 8, 3, 6, 4, 8>>]

RECIPIENT == "ST1PQHQKV0RJXZFY1DGX8MNSNYVE3VGZJSRTPGZGM"

NumberKeys == {"nonce", "expiresAt"}

PayloadRequired ==
  {"scheme", "network", "chainId", "recipient", "amount", "asset", "nonce",
   "signature", "publicKey"}

PayloadOptional == {"expiresAt"}

RequirementRequired ==
  {"scheme", "network", "chainId", "recipient", "amount", "asset"}

RequirementOptional == {"description", "resource"}

Undefined(k) == IF k \in NumberKeys THEN NoExpiry ELSE NONE

IsDefined(k, v) ==
  IF k = "expiresAt" THEN v # NoExpiry
  ELSE IF k \in RequirementOptional THEN v # NONE
  ELSE TRUE

Str(s) == [quoted |-> TRUE, text |-> s]

Num(digits) == [quoted |-> FALSE, text |-> digits]

\* the text of one value
Token(k, v) ==
  IF k \in NumberKeys THEN Num(ToDecimal(v))
  ELSE IF k = "chainId" THEN Num(CHAIN_IDS[v])
  ELSE Str(v)

\* the value of one text
Value(k, tok) ==
  IF k \in NumberKeys THEN BigInt(tok.text)
  ELSE IF k = "chainId"
         THEN CHOOSE c \in DOMAIN CHAIN_IDS : CHAIN_IDS[c] = tok.text
  ELSE tok.text

JSONstringify(x) ==
  [k \in {j \in DOMAIN x : IsDefined(j, x[j])} |-> Token(k, x[k])]

\* Buffer.from(JSON.stringify(x)).toString('base64')
encodePayment(x) == [wellFormed |-> TRUE, members |-> JSONstringify(x)]

DecodeError == [ok |-> FALSE]

Decoded(x) == [ok |-> TRUE, value |-> x]

\* the object of a JSON text, its missing optional members undefined
JSONparse(members, optional) ==
  [k \in DOMAIN members \cup optional |->
     IF k \in DOMAIN members THEN Value(k, members[k]) ELSE Undefined(k)]

\* a decoder that copies the required members only
decodePaymentPayloadRequiredOnly(encoded) ==
  IF ~encoded.wellFormed THEN DecodeError
  ELSE IF ~(PayloadRequired \subseteq DOMAIN encoded.members) THEN DecodeError
  ELSE Decoded([k \in PayloadRequired \cup PayloadOptional |->
                  IF k \in PayloadRequired
                    THEN Value(k, encoded.members[k]) ELSE Undefined(k)])

decodePaymentPayload(encoded) ==
  IF ~encoded.wellFormed THEN DecodeError
  ELSE IF ~(PayloadRequired \subseteq DOMAIN encoded.members) THEN DecodeError
  ELSE Decoded(JSONparse(encoded.members, PayloadOptional))

decodePaymentRequirement(encoded) ==
  IF ~encoded.wellFormed THEN DecodeError
  ELSE IF ~(RequirementRequired \subseteq DOMAIN encoded.members)
         THEN DecodeError
  ELSE Decoded(JSONparse(encoded.members, RequirementOptional))

\* createPaymentRequirement(recipient, amount, options)
createPaymentRequirement(recipient, amount, options) ==
  [scheme |-> "exact", network |-> "stacks", chainId |-> options.chainId,
   recipient |-> recipient, amount |-> amount, asset |-> "STX",
   description |-> options.description, resource |-> options.resource]

DefaultOptions ==
  [chainId |-> "TESTNET", description |-> NONE, resource |-> NONE]

\* the payloads a payer can sign: those of verifyPayment, signed
SignedPayloads(amount) ==
  [scheme : {"exact", "subscription"}, network : {"stacks"},
   chainId : {"TESTNET", "MAINNET"},
   recipient : {RECIPIENT, "ST1DIFFERENT_ADDRESS_COMPLETELY_HERE00"},
   amount : {ToDecimal(amount)}, asset : {"STX"}, nonce : {1, 42},
   signature : {"abcdef1234567890"}, publicKey : {"pubkey0123456789"},
   expiresAt : {NoExpiry} \cup Times]

PaymentRequirements(amount) ==
  {createPaymentRequirement(r, ToDecimal(amount), o) :
     r \in {RECIPIENT, "SP1EXAMPLE0000000000000000000000000000000"},
     o \in [chainId : {"TESTNET", "MAINNET"},
            description : {NONE, "Test payment for API access"},
            resource : {NONE, "GET /premium"}]}

\* encodePayment(x), then the decoder of the kind of x
RoundTrip(kind, x) ==
  codec' = [called |-> TRUE, kind |-> kind, x |-> x,
            encoded |-> encodePayment(x),
            decoded |-> IF kind = "payload"
                          THEN decodePaymentPayload(encodePayment(x))
                          ELSE decodePaymentRequirement(encodePayment(x))]

RoundTripPayload ==
  /\ ~codec.called
  /\ \E amount \in Amounts : \E x \in SignedPayloads(amount) :
       RoundTrip("payload", x)
  /\ UNCHANGED <<tasks, agents, bids, reviews, reqs, load, hooks, auth, vp, gate, wf>>

RoundTripRequirement ==
  /\ ~codec.called
  /\ \E amount \in Amounts : \E x \in PaymentRequirements(amount) :
       RoundTrip("requirement", x)
  /\ UNCHANGED <<tasks, agents, bids, reviews, reqs, load, hooks, auth, vp, gate, wf>>

RoundTripReturn ==
  /\ codec.called
  /\ codec' = NoCall
  /\ UNCHANGED <<tasks, agents, bids, reviews, reqs, load, hooks, auth, vp, gate, wf>>

\* =================================================== paymentMiddleware
\* A price is a decimal string of STX: the digits before and after the point.
RECURSIVE PadRight(_, _)
PadRight(digits, n) ==
  IF Len(digits) >= n THEN SubSeq(digits, 1, n)
  ELSE PadRight(Append(digits, 0), n)

\* stxToMicroStx('0.005') = '5000'
stxToMicroStx(stx) ==
  ToDecimal(BigInt(stx.whole) * 1000000 + BigInt(PadRight(stx.frac, 6)))

Methods == {"GET", "POST"}

Paths == {"/paid-endpoint", "/submit", "/free-endpoint"}

\* routes of the tests: 'GET /paid-endpoint' at 0.001, 'POST /submit' at 0.01
TestRoutes ==
  [k \in {"GET /paid-endpoint", "POST /submit"} |->
     IF k = "GET /paid-endpoint"
       THEN [price |-> [whole |-> <<0>>, frac |-> <<0, 0, 1>>],
             description |-> "Access paid data"]
       ELSE [price |-> [whole |-> <<0>>, frac |-> <<0, 1>>],
             description |-> "Submit content"]]

NoRoutes == [k \in {} |-> NONE]

RouteConfigs == {NoRoutes, TestRoutes}

\* amounts paid to the gate, in microSTX: around the two prices
GateAmounts == {999, 1000, 9999, 10000}

getChainId(type) == IF type = "mainnet" THEN "MAINNET" ELSE "TESTNET"

RouteKey(method, path) == method \o " " \o path

\* a gate that guards the GET routes only
IsGuardedGetOnly(routes, method, path) ==
  method = "GET" /\ RouteKey(method, path) \in DOMAIN routes

IsGuarded(routes, method, path) == RouteKey(method, path) \in DOMAIN routes

EmptyHeaders == [h \in {} |-> NONE]

NoBody == [error |-> NONE]

NoPayment == [attached |-> FALSE]

\* next() is called and the response is left alone
PassThrough ==
  [statusCode |-> 200, headers |-> EmptyHeaders, body |-> NoBody,
   sent |-> FALSE, nextCalled |-> 1, x402Payment |-> NoPayment]

\* res.status(status).set(headers).json(body), and next() is not called
Reply(status, headers, body) ==
  [statusCode |-> status, headers |-> headers, body |-> body,
   sent |-> TRUE, nextCalled |-> 0, x402Payment |-> NoPayment]

\* a 402 that names no requirement in its headers
PaymentRequiredBare(route, requirement) ==
  Reply(402, EmptyHeaders,
        [error |-> "Payment Required",
         requirement |-> [amount |-> route.price, asset |-> requirement.asset,
                          recipient |-> requirement.recipient],
         message |-> route.description])

PaymentRequired(route, requirement) ==
  Reply(402, "X-Payment-Required" :> encodePayment(requirement),
        [error |-> "Payment Required",
         requirement |-> [amount |-> route.price, asset |-> requirement.asset,
                          recipient |-> requirement.recipient],
         message |-> route.description])

\* an undecodable header answered as a payment that is refused
InvalidHeaderAsRejected ==
  Reply(402, EmptyHeaders, [error |-> "Invalid payment header format"])

InvalidHeader ==
  Reply(400, EmptyHeaders, [error |-> "Invalid payment header format"])

PaymentRejected(reason) == Reply(402, EmptyHeaders, [error |-> reason])

Proceed(details, settlement) ==
  [PassThrough EXCEPT
     !.x402Payment = [attached |-> TRUE, details |-> details,
                      settlement |-> settlement]]

\* a gate that lets the request through whatever the verifier said
AfterVerifyAlwaysNext(result, payload, settlement) ==
  Proceed([amount |-> payload.amount, recipient |-> payload.recipient,
           nonce |-> payload.nonce], settlement)

\* What follows the verifier.  `settlement` is "none" when the options do
\* not settle immediately, else what settle(payload) came to; the gate may
\* answer a failed settlement either way.
AfterVerify(result, payload, settlement) ==
  IF ~result.valid THEN PaymentRejected(result.reason)
  ELSE IF settlement = "failed, refused"
         THEN PaymentRejected("Payment settlement failed")
  ELSE Proceed(result.details, settlement)

Settlements(options) ==
  IF options.settleImmediately
    THEN {"success", "failed, refused", "failed, continued"}
    ELSE {"none"}

paymentMiddleware(routes, options, req, now, settlement) ==
  IF ~IsGuarded(routes, req.method, req.path) THEN PassThrough
  ELSE
    LET route == routes[RouteKey(req.method, req.path)]
        requirement ==
          createPaymentRequirement(
            options.recipientAddress, stxToMicroStx(route.price),
            [chainId |-> getChainId(options.network.type),
             description |-> route.description, resource |-> NONE])
    IN IF "x-payment" \notin DOMAIN req.headers
         THEN PaymentRequired(route, requirement)
       ELSE
         LET decoded == decodePaymentPayload(req.headers["x-payment"])
         IN IF ~decoded.ok THEN InvalidHeader
            ELSE AfterVerify(verifyPayment(decoded.value, requirement, now),
                             decoded.value, settlement)

\* 'not-valid-json-base64'
Garbage == [wellFormed |-> FALSE, members |-> EmptyHeaders]

\* the value of the x-payment header of a request, by its kind
XPayment(kind, payload) ==
  IF kind = "garbage" THEN Garbage
  ELSE IF kind = "requirement"
         THEN encodePayment(
                createPaymentRequirement(payload.recipient, payload.amount,
                                         DefaultOptions))
  ELSE encodePayment(payload)

HeaderKinds == {"none", "garbage", "requirement", "payload"}

GateOptions ==
  [recipientAddress : {RECIPIENT}, network : {[type |-> "testnet"]},
   settleImmediately : BOOLEAN]

\* One request through the middleware.  Its x-payment header is absent, or
\* text that is no JSON, or an encoded requirement (JSON without the fields
\* of a payload), or the encoded payload.
PaymentMiddlewareCall ==
  /\ ~gate.called
  /\ \E routes \in RouteConfigs, options \in GateOptions, method \in Methods,
        path \in Paths, kind \in HeaderKinds, paid \in GateAmounts,
        now \in Times :
       \E payload \in SignedPayloads(paid), settlement \in Settlements(options) :
         LET req == [method |-> method, path |-> path,
                     headers |-> IF kind = "none" THEN EmptyHeaders
                                 ELSE "x-payment" :> XPayment(kind, payload)]
         IN /\ payload.nonce = 1
            /\ gate' = [called |-> TRUE, routes |-> routes,
                        options |-> options, req |-> req, kind |-> kind,
                        paid |-> paid, payload |-> payload, now |-> now,
                        out |-> paymentMiddleware(routes, options, req, now,
                                                  settlement)]
  /\ UNCHANGED <<tasks, agents, bids, reviews, reqs, load, hooks, auth, vp, wf, codec>>

PaymentMiddlewareReturn ==
  /\ gate.called
  /\ gate' = NoCall
  /\ UNCHANGED <<tasks, agents, bids, reviews, reqs, load, hooks, auth, vp, wf, codec>>

\* =========================================================== wrapFetch
\* The wrapped fetch is followed call by call: the wrapper calls the fetch
\* it was given, waits for the response, and either returns it or signs a
\* payment and calls once more.  `calls` lists the calls made to the
\* underlying fetch, `signed` counts the payments signed.

\* fetch(input): no options given
NoInit == [method |-> NONE, headers |-> EmptyHeaders, body |-> NONE]

\* fetch(input, {method: 'POST', headers: {...}, body: '{"test":true}'})
PostInit ==
  [method |-> "POST", headers |-> "Content-Type" :> "application/json",
   body |-> "{test:true}"]

Inits == {NoInit, PostInit}

Statuses == {200, 404, 500, 402}

\* what the x-payment-required header of a response holds
RequirementHeaderKinds == {"none", "garbage", "requirement"}

\* the response of the server, the n-th of this call
Response(n, status, kind, amount) ==
  [id |-> n, status |-> status,
   headers |->
     IF kind = "none" THEN EmptyHeaders
     ELSE IF kind = "garbage" THEN "x-payment-required" :> Garbage
     ELSE "x-payment-required" :>
            encodePayment(createPaymentRequirement(
                            RECIPIENT, ToDecimal(amount), DefaultOptions))]

\* the amounts compared as strings
ExceedsCeilingAsStrings(amount, maxAutoPayAmount) ==
  ~StringGeq(maxAutoPayAmount, amount)

\* BigInt(requirement.amount) > BigInt(maxAutoPayAmount)
ExceedsCeiling(amount, maxAutoPayAmount) ==
  BigInt(amount) > BigInt(maxAutoPayAmount)

\* a wrapper that pays on any response that names a requirement
ShouldPayAnyStatus(response, config) ==
  /\ "x-payment-required" \in DOMAIN response.headers
  /\ LET decoded ==
           decodePaymentRequirement(response.headers["x-payment-required"])
     IN /\ decoded.ok
        /\ ~ExceedsCeiling(decoded.value.amount, config.maxAutoPayAmount)

\* the wrapper pays: a 402 that names a requirement it can decode, of an
\* amount within the ceiling
ShouldPay(response, config) ==
  /\ response.status = 402
  /\ "x-payment-required" \in DOMAIN response.headers
  /\ LET decoded ==
           decodePaymentRequirement(response.headers["x-payment-required"])
     IN /\ decoded.ok
        /\ ~ExceedsCeiling(decoded.value.amount, config.maxAutoPayAmount)

\* the payload signed for a requirement with the wallet of the config
createPayment(requirement, wallet) ==
  [scheme |-> requirement.scheme, network |-> requirement.network,
   chainId |-> requirement.chainId, recipient |-> requirement.recipient,
   amount |-> requirement.amount, asset |-> requirement.asset, nonce |-> 1,
   signature |-> "signed with " \o wallet.privateKey,
   publicKey |-> "public key of " \o wallet.privateKey,
   expiresAt |-> NoExpiry]

\* a retry that sends the payment header in place of the caller's headers
RetryInitPaymentOnly(init, payment) ==
  [init EXCEPT !.headers = "X-Payment" :> payment]

\* the options of the retry: those of the caller, and the payment header
RetryInit(init, payment) ==
  [init EXCEPT !.headers = ("X-Payment" :> payment) @@ @]

WrapFetchCall ==
  /\ ~wf.called
  /\ \E init \in Inits, max \in Amounts :
       wf' = [called |-> TRUE, pc |-> "first",
              input |-> "http://example.com/paid", init |-> init,
              config |-> [wallet |-> [privateKey |-> "aaaa"],
                          network |-> [type |-> "testnet"],
                          maxAutoPayAmount |-> ToDecimal(max)],
              max |-> max,
              calls |-> <<[input |-> "http://example.com/paid", init |-> init]>>,
              signed |-> 0, kind |-> "none", price |-> 0,
              first |-> Response(0, 200, "none", 0),
              result |-> Response(0, 200, "none", 0)]
  /\ UNCHANGED <<tasks, agents, bids, reviews, reqs, load, hooks, auth, vp, gate, codec>>

\* the first call is answered: the wrapper returns the response, or signs a
\* payment for the requirement it names and calls again
FirstResponse ==
  /\ wf.called /\ wf.pc = "first"
  /\ \E status \in Statuses, kind \in RequirementHeaderKinds, price \in Amounts :
       LET response == Response(1, status, kind, price)
       IN IF ShouldPay(response, wf.config)
            THEN LET requirement ==
                       decodePaymentRequirement(
                         response.headers["x-payment-required"]).value
                     payment ==
                       encodePayment(createPayment(requirement, wf.config.wallet))
                 IN wf' = [wf EXCEPT
                             !.pc = "retry", !.first = response,
                             !.kind = kind, !.price = price,
                             !.signed = @ + 1,
                             !.calls = Append(@, [input |-> wf.input,
                                                  init |-> RetryInit(wf.init, payment)])]
            ELSE wf' = [wf EXCEPT
                          !.pc = "returned", !.first = response,
                          !.kind = kind, !.price = price,
                          !.result = response]
  /\ UNCHANGED <<tasks, agents, bids, reviews, reqs, load, hooks, auth, vp, gate, codec>>

\* the retry is answered: its response goes to the caller, whatever it is
RetryResponse ==
  /\ wf.called /\ wf.pc = "retry"
  /\ \E status \in Statuses, kind \in RequirementHeaderKinds :
       wf' = [wf EXCEPT !.pc = "returned",
                        !.result = Response(2, status, kind, wf.price)]
  /\ UNCHANGED <<tasks, agents, bids, reviews, reqs, load, hooks, auth, vp, gate, codec>>

WrapFetchReturn ==
  /\ wf.called /\ wf.pc = "returned"
  /\ wf' = NoCall
  /\ UNCHANGED <<tasks, agents, bids, reviews, reqs, load, hooks, auth, vp, gate, codec>>

Next ==
  \/ \E t \in TaskIds, a \in Posters, b \in Bounties \cup WideBounties :
       createTask(t, a, b)
  \/ \E a \in AgentIds : registerAgent(a)
  \/ \E p \in Slots, t \in TaskIds, a \in AgentIds : BeginAcceptTask(p, t, a)
  \/ \E p \in Slots : AcceptTaskGetAgent(p)
  \/ \E p \in Slots : AcceptTaskUpdate(p)
  \/ \E p \in Slots : AcceptTaskTouch(p)
  \/ \E p \in Slots, t \in TaskIds, a \in AgentIds : BeginStartTask(p, t, a)
  \/ \E p \in Slots : StartTaskUpdate(p)
  \/ \E p \in Slots : StartTaskTouch(p)
  \/ \E p \in Slots, t \in TaskIds, a \in Addresses : BeginCancelTask(p, t, a)
  \/ \E p \in Slots : CancelTaskUpdate(p)
  \/ \E p \in Slots, t \in TaskIds, a \in AgentIds, x \in Results :
       BeginSubmitResult(p, t, a, x)
  \/ \E p \in Slots : SubmitResultUpdate(p)
  \/ \E p \in Slots, t \in TaskIds, a \in Addresses : BeginRejectResult(p, t, a)
  \/ \E p \in Slots : RejectResultUpdate(p)
  \/ \E p \in Slots, t \in TaskIds : BeginApproveTask(p, t)
  \/ \E p \in Slots, h \in HealthAnswers : ApproveTaskHealth(p, h)
  \/ \E p \in Slots : ApproveTaskUpdateTask(p)
  \/ \E p \in Slots : ApproveTaskUpdateAgent(p)
  \/ \E p \in Slots : ApproveTaskCommit(p)
  \/ \E p \in Slots, t \in TaskIds, a \in Addresses : BeginCloseTask(p, t, a)
  \/ \E p \in Slots : CloseTaskUpdate(p)
  \/ \E p \in Slots, t \in TaskIds, a \in AgentIds : BeginPlaceBid(p, t, a)
  \/ \E p \in Slots : PlaceBidGetAgent(p)
  \/ \E p \in Slots : PlaceBidExisting(p)
  \/ \E p \in Slots : PlaceBidInsert(p)
  \/ \E p \in Slots : PlaceBidBidding(p)
  \/ \E p \in Slots : PlaceBidTouch(p)
  \/ \E p \in Slots, t \in TaskIds, b \in BidIds, a \in Addresses :
       BeginAcceptBid(p, t, b, a)
  \/ \E p \in Slots : AcceptBidGetBid(p)
  \/ \E p \in Slots : AcceptBidGetAgent(p)
  \/ \E p \in Slots : AcceptBidUpdate(p)
  \/ \E p \in Slots : AcceptBidTouch(p)
  \/ \E p \in Slots : Respond(p)

Spec == Init /\ [][Next]_vars

SpecSeq == InitSeq /\ [][Next]_vars

\* ---------------------------------------------------------- storage errors
\* acceptTask and placeBid send each statement to the pool on its own, outside
\* any transaction: a statement the database refuses (a lost connection, a
\* statement timeout) rejects the `await query(...)`, the handler has no
\* try/catch and throws, and what the statements before it wrote is stored.

\* UPDATE agents SET last_active_at of acceptTask fails
AcceptTaskTouchThrows(p) ==
  /\ reqs[p].pc = "at_touch"
  /\ Return(p, reqs[p], "throw")
  /\ UNCHANGED <<tasks, agents, bids, other>>

\* UPDATE tasks SET status = 'bidding' of placeBid fails
PlaceBidBiddingThrows(p) ==
  /\ reqs[p].pc = "pb_bidding"
  /\ Return(p, reqs[p], "throw")
  /\ UNCHANGED <<tasks, agents, bids, other>>

\* UPDATE agents SET last_active_at of placeBid fails
PlaceBidTouchThrows(p) ==
  /\ reqs[p].pc = "pb_touch"
  /\ Return(p, reqs[p], "throw")
  /\ UNCHANGED <<tasks, agents, bids, other>>

NextFaults ==
  \/ \E p \in Slots : AcceptTaskTouchThrows(p)
  \/ \E p \in Slots : PlaceBidBiddingThrows(p)
  \/ \E p \in Slots : PlaceBidTouchThrows(p)

NextWithFaults == Next \/ NextFaults

\* one request at a time, over a database that may refuse a statement
SpecFaults == InitSeq /\ [][NextWithFaults]_vars

\* The statements the server itself runs to the end: every database
\* statement of a request in flight, and the response.  The health request
\* of approveTask is not among them: it is a plain fetch without a signal or
\* a timeout, and it ends when the facilitator ends it.
Statements ==
  \E p \in Slots :
    \/ AcceptTaskGetAgent(p) \/ AcceptTaskUpdate(p) \/ AcceptTaskTouch(p)
    \/ StartTaskUpdate(p) \/ StartTaskTouch(p)
    \/ CancelTaskUpdate(p) \/ SubmitResultUpdate(p) \/ RejectResultUpdate(p)
    \/ ApproveTaskUpdateTask(p) \/ ApproveTaskUpdateAgent(p)
    \/ ApproveTaskCommit(p)
    \/ CloseTaskUpdate(p)
    \/ PlaceBidGetAgent(p) \/ PlaceBidExisting(p) \/ PlaceBidInsert(p)
    \/ PlaceBidBidding(p) \/ PlaceBidTouch(p)
    \/ AcceptBidGetBid(p) \/ AcceptBidGetAgent(p) \/ AcceptBidUpdate(p)
    \/ AcceptBidTouch(p)
    \/ Respond(p)

\* one request at a time, every statement of the server eventually run
SpecLive == InitSeq /\ [][Next]_vars /\ WF_vars(Statements)

\* the approve route that checks the poster
NextRoute ==
  \/ \E p \in Slots, t \in TaskIds, a \in Addresses \cup {NONE},
        x \in TxIds \cup {NONE} : BeginApproveRoute(p, t, a, x)
  \/ \E p \in Slots : ApproveTaskGetTask(p)

NextReview ==
  \/ \E p \in Slots, a \in AgentIds, t \in ReviewTaskIds, b \in Addresses,
        n \in Ratings, c \in Comments : BeginSubmitReview(p, a, t, b, n, c)
  \/ \E p \in Slots : SubmitReviewGetTask(p)
  \/ \E p \in Slots : SubmitReviewInsert(p)
  \/ \E p \in Slots : SubmitReviewSelect(p)
  \/ \E p \in Slots : SubmitReviewUpdate(p)
  \/ \E p \in Slots : SubmitReviewCommit(p)

\* the whole API, one request at a time
NextApi == Next \/ NextRoute \/ NextReview

SpecApi == InitApi /\ [][NextApi]_vars

\* a task that agent a has done and the poster has approved
FinishedTask(a, status) ==
  [NoTask EXCEPT !.exists = TRUE, !.status = status, !.posterAddress = "p1",
                 !.bountyMicroStx = 20000, !.assignedAgent = a,
                 !.result = "result", !.paymentTxId = "sim_",
                 !.platformFee = FeeMicro(20000),
                 !.platformWallet = PLATFORM_WALLET, !.completedAt = "now"]

\* agent a1 has done both tasks: the first is completed, the second closed
InitReview ==
  /\ tasks = [t \in ReviewTaskIds |->
                FinishedTask("a1", IF t = "t1" THEN "completed" ELSE "closed")]
  /\ agents = [a \in AgentIds |->
                 IF a = "a1"
                   THEN [NoAgent EXCEPT !.registered = TRUE,
                                        !.tasksCompleted = 2,
                                        !.totalEarned = 2 * PayoutMicro(20000),
                                        !.lastActiveAt = TRUE]
                   ELSE [NoAgent EXCEPT !.registered = TRUE]]
  /\ bids = <<>>
  /\ reviews = {}
  /\ reqs = [p \in Slots |-> Idle]
  /\ load = [inFlight |-> MaxInFlight, bounties |-> Bounties,
            ratings |-> ReviewRatings,
            results |-> {"result"}]
  /\ vp = NoCall
  /\ gate = NoCall
  /\ wf = NoCall
  /\ codec = NoCall
  /\ hooks = NoCall
  /\ auth = NoCall

\* concurrent reviews of two finished tasks
NextReviews == NextReview \/ \E p \in Slots : Respond(p)

SpecReview == InitReview /\ [][NextReviews]_vars

NextVerify == VerifyPaymentCall \/ VerifyPaymentAgain \/ VerifyPaymentReturn

SpecVerify == Init /\ [][NextVerify]_vars

NextCodec == RoundTripPayload \/ RoundTripRequirement \/ RoundTripReturn

SpecCodec == Init /\ [][NextCodec]_vars

NextGate == PaymentMiddlewareCall \/ PaymentMiddlewareReturn

SpecGate == Init /\ [][NextGate]_vars

NextFetch ==
  WrapFetchCall \/ FirstResponse \/ RetryResponse \/ WrapFetchReturn

SpecFetch == Init /\ [][NextFetch]_vars

\* ================================================ stackstasker-payments.clar
\* (define-constant ERR_ZERO_AMOUNT (err u100))
ERR_ZERO_AMOUNT == 100

\* (stx-transfer? amount sender recipient) by a sender that holds the amount:
\* (err u3) for an amount that is not positive, (err u2) to the sender
\* itself, (ok true) otherwise
stxTransfer(amount, sender, recipient) ==
  IF amount = 0 THEN [ok |-> FALSE, err |-> 3]
  ELSE IF sender = recipient THEN [ok |-> FALSE, err |-> 2]
  ELSE [ok |-> TRUE, err |-> 0]

\* (get-fee-split bounty-ustx); / on uint truncates
getFeeSplit(bountyUstx) ==
  LET fee == bountyUstx \div 100
      payout == bountyUstx - fee
  IN [payout |-> payout, fee |-> fee]

\* (pay-task agent platform bounty-ustx) called by txSender: the response and
\* the transfers that are part of the chain state after the call.  A try!
\* that meets an (err ...) returns it from pay-task, and a public function
\* that returns (err ...) has all its effects undone.
payTask(txSender, agent, platform, bountyUstx) ==
  IF ~(bountyUstx > 0)
    THEN [ok |-> FALSE, err |-> ERR_ZERO_AMOUNT, transfers |-> <<>>]
    ELSE LET fee == bountyUstx \div 100
             payout == bountyUstx - fee
             toAgent == stxTransfer(payout, txSender, agent)
             toPlatform == stxTransfer(fee, txSender, platform)
         IN IF ~toAgent.ok
              THEN [ok |-> FALSE, err |-> toAgent.err, transfers |-> <<>>]
            ELSE IF ~toPlatform.ok
              THEN [ok |-> FALSE, err |-> toPlatform.err, transfers |-> <<>>]
            ELSE [ok |-> TRUE, err |-> 0,
                  transfers |-> <<[to |-> agent, amount |-> payout],
                                  [to |-> platform, amount |-> fee]>>]

\* ================================================= verifyWalletSignature
\* A header of the request: absent, or present with its text (a sequence of
\* characters, the empty text included).
AbsentHeader == [present |-> FALSE, value |-> <<>>]

Header(value) == [present |-> TRUE, value |-> value]

WalletAddresses ==
  {<<>>, <<"S">>, <<"S", "T", "1">>, <<"S", "P", "1">>, <<"B", "T", "1">>,
   <<"T", "S">>}

WalletSignatures == {<<>>, <<"s", "i", "g">>}

\* Date.now() of the call, in milliseconds
AuthNows == {600000}

\* the instants a client signs: at the edges of the window around AuthNows
\* and outside it on both sides
SignedTimes == {0, 299999, 300000, 600000, 900000, 900001, 1200000}

\* the text of the timestamp header: empty, no date, or the ISO text of an
\* instant
WalletTimestamps ==
  {<<>>, <<"not-a-date">>} \cup {<<"iso", ms>> : ms \in SignedTimes}

HeaderChoices(values) == {AbsentHeader} \cup {Header(v) : v \in values}

\* !header of JavaScript: undefined and '' are both falsy
Falsy(h) == ~h.present \/ h.value = <<>>

\* text.startsWith(prefix)
StartsWith(text, prefix) ==
  /\ Len(text) >= Len(prefix)
  /\ SubSeq(text, 1, Len(prefix)) = prefix

\* new Date(text).getTime(): the instant of an ISO text, NaN for any other
DateGetTime(text) ==
  IF Len(text) = 2 /\ text[1] = "iso"
    THEN [nan |-> FALSE, ms |-> text[2]]
    ELSE [nan |-> TRUE, ms |-> 0]

MathAbs(n) == IF n < 0 THEN -n ELSE n

fiveMinutes == 5 * 60 * 1000

\* the response is not written and next() is called
CallsNext(walletAddress) ==
  [status |-> 0, error |-> NONE, next |-> TRUE, walletAddress |-> walletAddress]

Responds401(error) ==
  [status |-> 401, error |-> error, next |-> FALSE,
   walletAddress |-> AbsentHeader]

\* verifyWalletSignature without the check of the 5 minute window
verifyWalletSignatureNoWindow(headers, now) ==
  LET walletAddress == headers.address
      signature == headers.signature
      timestamp == headers.timestamp
  IN IF Falsy(walletAddress) /\ Falsy(signature) THEN CallsNext(AbsentHeader)
     ELSE IF Falsy(walletAddress) \/ Falsy(signature) \/ Falsy(timestamp)
       THEN Responds401("Missing authentication headers")
     ELSE IF DateGetTime(timestamp.value).nan
            THEN Responds401("Signature timestamp expired or invalid")
     ELSE IF /\ ~StartsWith(walletAddress.value, <<"S", "T">>)
             /\ ~StartsWith(walletAddress.value, <<"S", "P">>)
            THEN Responds401("Invalid STX wallet address format")
     ELSE CallsNext(walletAddress)

verifyWalletSignature(headers, now) ==
  LET walletAddress == headers.address
      signature == headers.signature
      timestamp == headers.timestamp
  IN IF Falsy(walletAddress) /\ Falsy(signature) THEN CallsNext(AbsentHeader)
     ELSE IF Falsy(walletAddress) \/ Falsy(signature) \/ Falsy(timestamp)
       THEN Responds401("Missing authentication headers")
     ELSE LET signedTime == DateGetTime(timestamp.value)
          IN IF signedTime.nan \/ MathAbs(now - signedTime.ms) > fiveMinutes
               THEN Responds401("Signature timestamp expired or invalid")
             ELSE IF /\ ~StartsWith(walletAddress.value, <<"S", "T">>)
                     /\ ~StartsWith(walletAddress.value, <<"S", "P">>)
               THEN Responds401("Invalid STX wallet address format")
             ELSE CallsNext(walletAddress)

\* one request through the middleware
VerifyWalletSignatureCall ==
  /\ ~auth.called
  /\ \E address \in HeaderChoices(WalletAddresses),
        signature \in HeaderChoices(WalletSignatures),
        timestamp \in HeaderChoices(WalletTimestamps), now \in AuthNows :
       LET headers == [address |-> address, signature |-> signature,
                       timestamp |-> timestamp]
       IN auth' = [called |-> TRUE, headers |-> headers, now |-> now,
                   out |-> verifyWalletSignature(headers, now)]
  /\ UNCHANGED <<tasks, agents, bids, reviews, reqs, load, hooks, vp, gate, wf, codec>>

VerifyWalletSignatureReturn ==
  /\ auth.called
  /\ auth' = NoCall
  /\ UNCHANGED <<tasks, agents, bids, reviews, reqs, load, hooks, vp, gate, wf, codec>>

NextAuth == VerifyWalletSignatureCall \/ VerifyWalletSignatureReturn

SpecAuth == Init /\ [][NextAuth]_vars

\* ========================================================= dispatchEvent
WebhookIds == {"w1", "w2"}
EventTypes == {"task.created", "bid.placed"}
Subscriptions == {{"task.created"}, {"*"}}

\* the rows of the webhooks table
WebhookRows ==
  [active : BOOLEAN, events : Subscriptions,
   filterCategory : {NONE, "coding"}, filterTaskId : {NONE, "t1"},
   lastTriggeredAt : {FALSE}]

\* the DispatchContext of a call (a member may be missing)
DispatchContexts ==
  [taskId : {NONE, "t1", "t2"}, category : {NONE, "coding", "other"}]

\* WHERE active = true AND ($1 = ANY(events) OR '*' = ANY(events))
Selected(row, eventType) ==
  row.active /\ (eventType \in row.events \/ "*" \in row.events)

\* rows.filter(...): a filter counts when both the row and the context have
\* the member
Matches(row, context) ==
  /\ ~(/\ row.filterCategory # NONE /\ context.category # NONE
        /\ row.filterCategory # context.category)
  /\ ~(/\ row.filterTaskId # NONE /\ context.taskId # NONE
        /\ row.filterTaskId # context.taskId)

DispatchEventCall ==
  /\ ~hooks.called
  /\ \E eventType \in EventTypes, context \in DispatchContexts,
        table \in [WebhookIds -> WebhookRows] :
       hooks' = [called |-> TRUE, pc |-> "query", eventType |-> eventType,
                 context |-> context, webhooks |-> table,
                 deliveries |-> [w \in WebhookIds |-> "none"],
                 attempts |-> [w \in WebhookIds |-> 0],
                 logged |-> {}]
  /\ UNCHANGED <<tasks, agents, bids, reviews, reqs, load, auth, vp, gate, wf, codec>>

\* the SELECT outside the try block: a query that throws rejects the call
DispatchQueryUncaught ==
  /\ hooks.called /\ hooks.pc = "query"
  /\ \E throws \in BOOLEAN :
       IF throws
         THEN hooks' = [hooks EXCEPT !.pc = "rejected"]
         ELSE LET matching ==
                    {w \in WebhookIds :
                       /\ Selected(hooks.webhooks[w], hooks.eventType)
                       /\ Matches(hooks.webhooks[w], hooks.context)}
              IN IF matching = {}
                   THEN hooks' = [hooks EXCEPT !.pc = "resolved"]
                   ELSE hooks' = [hooks EXCEPT
                          !.pc = "deliveries",
                          !.deliveries = [w \in WebhookIds |->
                             IF w \in matching THEN "fetch" ELSE "none"]]
  /\ UNCHANGED <<tasks, agents, bids, reviews, reqs, load, auth, vp, gate, wf, codec>>

\* await query(SELECT ...): it throws and the outer catch logs, or it gives
\* the rows; no row, or no row after the filter, ends the call; otherwise one
\* delivery per matching row starts
DispatchQuery ==
  /\ hooks.called /\ hooks.pc = "query"
  /\ \E throws \in BOOLEAN :
       IF throws
         THEN hooks' = [hooks EXCEPT !.pc = "resolved",
                                     !.logged = @ \cup {"dispatch"}]
         ELSE LET rows == {w \in WebhookIds :
                             Selected(hooks.webhooks[w], hooks.eventType)}
                  matchingWebhooks ==
                    {w \in rows : Matches(hooks.webhooks[w], hooks.context)}
              IN IF rows = {} \/ matchingWebhooks = {}
                   THEN hooks' = [hooks EXCEPT !.pc = "resolved"]
                   ELSE hooks' = [hooks EXCEPT
                          !.pc = "deliveries",
                          !.deliveries = [w \in WebhookIds |->
                             IF w \in matchingWebhooks THEN "fetch" ELSE "none"]]
  /\ UNCHANGED <<tasks, agents, bids, reviews, reqs, load, auth, vp, gate, wf, codec>>

\* await fetch(url, {signal: AbortSignal.timeout(3000)}): the endpoint
\* answers (whatever the status), the fetch throws, or the signal aborts it
DeliveryFetch(w) ==
  /\ hooks.called /\ hooks.pc = "deliveries"
  /\ hooks.deliveries[w] = "fetch"
  /\ \E answer \in {"answers", "throws", "times out"} :
       hooks' = [hooks EXCEPT
         !.attempts[w] = @ + 1,
         !.deliveries[w] = IF answer = "answers" THEN "update" ELSE "failed",
         !.logged = IF answer = "answers" THEN @ ELSE @ \cup {w}]
  /\ UNCHANGED <<tasks, agents, bids, reviews, reqs, load, auth, vp, gate, wf, codec>>

\* await query('UPDATE webhooks SET last_triggered_at = NOW() WHERE id = $1')
DeliveryUpdate(w) ==
  /\ hooks.called /\ hooks.pc = "deliveries"
  /\ hooks.deliveries[w] = "update"
  /\ \E throws \in BOOLEAN :
       IF throws
         THEN hooks' = [hooks EXCEPT !.deliveries[w] = "failed",
                                     !.logged = @ \cup {w}]
         ELSE hooks' = [hooks EXCEPT !.deliveries[w] = "delivered",
                                     !.webhooks[w].lastTriggeredAt = TRUE]
  /\ UNCHANGED <<tasks, agents, bids, reviews, reqs, load, auth, vp, gate, wf, codec>>

\* await Promise.allSettled(deliveries)
DispatchSettled ==
  /\ hooks.called /\ hooks.pc = "deliveries"
  /\ \A w \in WebhookIds : hooks.deliveries[w] \in {"none", "delivered", "failed"}
  /\ hooks' = [hooks EXCEPT !.pc = "resolved"]
  /\ UNCHANGED <<tasks, agents, bids, reviews, reqs, load, auth, vp, gate, wf, codec>>

\* the caller goes on
DispatchEventReturn ==
  /\ hooks.called /\ hooks.pc \in {"resolved", "rejected"}
  /\ hooks' = NoCall
  /\ UNCHANGED <<tasks, agents, bids, reviews, reqs, load, auth, vp, gate, wf, codec>>

NextDispatch ==
  \/ DispatchEventCall
  \/ DispatchQuery
  \/ \E w \in WebhookIds : DeliveryFetch(w)
  \/ \E w \in WebhookIds : DeliveryUpdate(w)
  \/ DispatchSettled
  \/ DispatchEventReturn

SpecDispatch == Init /\ [][NextDispatch]_vars

\* ================================================================ claims
BidsOf(t, a) == {i \in DOMAIN bids : bids[i].taskId = t /\ bids[i].agentId = a}

RECURSIVE SumCompleted(_)
SumCompleted(S) ==
  IF S = {} THEN 0
  ELSE LET a == CHOOSE x \in S : TRUE
       IN agents[a].tasksCompleted + SumCompleted(S \ {a})

\* C1: once a task has an assigned agent, no later statement overwrites it
\* (of two racing assignment calls only one assigns).
C1_AssignedAgentNeverOverwritten ==
  [][\A t \in TaskIds :
       tasks[t].assignedAgent # NONE
         => tasks'[t].assignedAgent = tasks[t].assignedAgent]_vars

\* C2: whatever the interleaving of approveTask calls, a task credits its
\* agent at most once: the tasks_completed counters never add up to more
\* than the number of tasks.
C2_CreditedOncePerTask ==
  SumCompleted(AgentIds) <= Cardinality({t \in TaskIds : tasks[t].exists})

\* C3: the task write and the agent write of approveTask commit together or
\* not at all: a step that makes a task completed credits an agent by one task
\* and the payout in the same step, a step that credits an agent leaves the
\* task of the approving request completed with its payment metadata, and a
\* step in which approveTask throws leaves the stored tasks and agents as
\* they were.
C3_ApproveAtomic ==
  [][/\ \A t \in TaskIds :
          tasks'[t].status = "completed" /\ tasks[t].status # "completed"
            => \E a \in AgentIds :
                 /\ agents'[a].tasksCompleted = agents[a].tasksCompleted + 1
                 /\ agents'[a].totalEarned =
                      agents[a].totalEarned + tasks[t].bountyMicroStx
                                            - tasks'[t].platformFee
     /\ \A a \in AgentIds :
          agents'[a].tasksCompleted # agents[a].tasksCompleted
            => \E p \in Slots :
                 /\ reqs[p].op = "approveTask" /\ reqs[p].pc = "ap_commit"
                 /\ reqs[p].taskAssignedAgent = a
                 /\ reqs'[p].out = "ok"
                 /\ tasks'[reqs[p].taskId].status = "completed"
                 /\ tasks'[reqs[p].taskId].paymentTxId = reqs[p].paymentTxId
                 /\ tasks'[reqs[p].taskId].platformFee # NoFee
                 /\ tasks'[reqs[p].taskId].platformWallet = PLATFORM_WALLET
                 /\ tasks'[reqs[p].taskId].completedAt # NONE
     /\ \A p \in Slots :
          reqs[p].op = "approveTask" /\ reqs'[p].out = "throw" /\ reqs[p].out # "throw"
            => tasks' = tasks /\ agents' = agents]_vars

C3_Witness ==
  \E p \in Slots :
    /\ reqs[p].op = "approveTask" /\ reqs[p].pc = "done" /\ reqs[p].out = "throw"
    /\ tasks[reqs[p].taskId].status = "submitted"
    /\ tasks[reqs[p].taskId].paymentTxId = NONE
    /\ tasks[reqs[p].taskId].platformFee = NoFee
    /\ \A a \in AgentIds : agents[a].tasksCompleted = 0 /\ agents[a].totalEarned = 0

\* C4: a task whose stored status is closed or cancelled never changes its
\* status or its assigned agent again.
C4_TerminalStatesFinal ==
  [][\A t \in TaskIds :
       tasks[t].status \in {"closed", "cancelled"}
         => /\ tasks'[t].status = tasks[t].status
            /\ tasks'[t].assignedAgent = tasks[t].assignedAgent]_vars

StatusEdges ==
  {<<"open", "bidding">>, <<"open", "assigned">>, <<"bidding", "assigned">>,
   <<"open", "cancelled">>, <<"bidding", "cancelled">>,
   <<"assigned", "in-progress">>, <<"assigned", "submitted">>,
   <<"in-progress", "submitted">>, <<"submitted", "assigned">>,
   <<"submitted", "completed">>, <<"completed", "closed">>}

\* C5: every change of a task's stored status is one of the edges of the
\* lifecycle.
C5_OnlyLifecycleEdges ==
  [][\A t \in TaskIds :
       tasks[t].exists /\ tasks'[t].status # tasks[t].status
         => <<tasks[t].status, tasks'[t].status>> \in StatusEdges]_vars

DuplicateBid == "Agent already placed a bid on this task"

\* C6: a placeBid that has not yet made its duplicate check while its agent
\* already has a bid on the task inserts nothing and leaves the task alone:
\* its steps change neither the bids nor the tasks, it never reaches the
\* INSERT, it returns an error, and the duplicate check itself returns the
\* duplicate error.
C6_DuplicateBidRejected ==
  [][\A p \in Slots :
       /\ reqs[p].op = "placeBid"
       /\ reqs[p].pc \in {"pb_getAgent", "pb_existing"}
       /\ BidsOf(reqs[p].taskId, reqs[p].agentId) # {}
       /\ reqs'[p] # reqs[p]
       => /\ bids' = bids
          /\ tasks' = tasks
          /\ reqs'[p].pc \in {"pb_existing", "done"}
          /\ reqs'[p].pc = "done"
               => reqs'[p].out \in {"Agent not registered", DuplicateBid}
          /\ reqs[p].pc = "pb_existing"
               => reqs'[p].pc = "done" /\ reqs'[p].out = DuplicateBid]_vars

C6_Witness ==
  \E p \in Slots :
    /\ reqs[p].op = "placeBid" /\ reqs[p].pc = "done"
    /\ reqs[p].out = DuplicateBid
    /\ Len(bids) = 1
    /\ tasks[reqs[p].taskId].status = "bidding"

\* C7: there is at most one bid per (task, agent) pair.
C7_OneBidPerTaskAndAgent ==
  \A t \in TaskIds, a \in AgentIds : Cardinality(BidsOf(t, a)) <= 1

\* the fee stored with a completed task, against its bounty
C8_FeeRecorded ==
  \A t \in TaskIds :
    tasks[t].platformFee # NoFee
      => LET B == tasks[t].bountyMicroStx
             fee == tasks[t].platformFee
         IN /\ 100 * fee <= B
            /\ B < 100 * fee + 100
            /\ B = 20000 => fee = 200
            /\ B = 1000000 => fee = 10000

\* the credit of a step that changes an agent's earnings
C8_PayoutCredited ==
  \A a \in AgentIds :
    agents'[a].totalEarned # agents[a].totalEarned
      => \E t \in TaskIds :
           /\ tasks'[t].assignedAgent = a
           /\ tasks'[t].platformFee # NoFee
           /\ agents'[a].totalEarned - agents[a].totalEarned
                + tasks'[t].platformFee = tasks'[t].bountyMicroStx
           /\ tasks'[t].bountyMicroStx = 20000
                => agents'[a].totalEarned - agents[a].totalEarned = 19800

\* C8: the fee recorded by approveTask is floor(B / 100) and the agent is
\* credited B - fee: 100 * fee <= B < 100 * fee + 100, the credit plus the fee
\* is B; B = 20000 gives fee 200 and payout 19800, B = 1000000 gives fee 10000.
C8_FeeSplit == []C8_FeeRecorded /\ [][C8_PayoutCredited]_vars

C8_Witness ==
  \E t \in TaskIds, a \in AgentIds :
    /\ tasks[t].status = "completed" /\ tasks[t].assignedAgent = a
    /\ tasks[t].bountyMicroStx = 20000 /\ tasks[t].platformFee = 200
    /\ agents[a].totalEarned = 19800 /\ agents[a].tasksCompleted = 1

\* the checks of verifyPayment that a call fails, by their place in the order
FailedChecks(c) ==
  {i \in 1..7 :
     \/ i = 1 /\ c.payload.scheme # c.requirement.scheme
     \/ i = 2 /\ c.payload.network # c.requirement.network
     \/ i = 3 /\ c.payload.chainId # c.requirement.chainId
     \/ i = 4 /\ c.payload.recipient # c.requirement.recipient
     \/ i = 5 /\ c.payload.asset # c.requirement.asset
     \/ i = 6 /\ c.paid < c.price
     \/ i = 7 /\ c.payload.expiresAt # NoExpiry /\ c.payload.expiresAt < c.now}

CheckReason ==
  <<"Scheme mismatch", "Network mismatch", "Chain ID mismatch",
    "Recipient mismatch", "Asset mismatch",
    "Insufficient amount: got <X>, need <Y>", "Payment expired">>

\* C9: verifyPayment reports the reason of the first check that fails, in the
\* order scheme, network, chain id, recipient, asset, amount, expiry, and
\* accepts when none fails.
C9_FirstFailingCheckWins ==
  vp.called
    => LET F == FailedChecks(vp)
       IN IF F = {} THEN vp.result.valid
          ELSE /\ ~vp.result.valid
               /\ vp.result.reason = CheckReason[CHOOSE i \in F : \A j \in F : i <= j]

C9_Witness ==
  /\ vp.called
  /\ vp.payload.scheme = vp.requirement.scheme
  /\ vp.payload.network # vp.requirement.network
  /\ vp.payload.recipient # vp.requirement.recipient
  /\ ~vp.result.valid
  /\ vp.result.reason = "Network mismatch"

\* C10: when scheme, network, chain id, recipient and asset agree and the
\* payload has no expiry, verifyPayment accepts exactly when the amount paid is
\* at least the amount required, and rejects a smaller amount as insufficient.
C10_AmountMonotone ==
  /\ vp.called
  /\ vp.payload.scheme = vp.requirement.scheme
  /\ vp.payload.network = vp.requirement.network
  /\ vp.payload.chainId = vp.requirement.chainId
  /\ vp.payload.recipient = vp.requirement.recipient
  /\ vp.payload.asset = vp.requirement.asset
  /\ vp.payload.expiresAt = NoExpiry
  => /\ vp.result.valid <=> vp.paid >= vp.price
     /\ ~vp.result.valid
          => vp.result.reason = "Insufficient amount: got <X>, need <Y>"

C10_Witness ==
  /\ vp.called
  /\ vp.paid = 10 /\ vp.price = 9
  /\ vp.payload.amount = <<1, 0>> /\ vp.requirement.amount = <<9>>
  /\ vp.payload.expiresAt = NoExpiry
  /\ vp.result.valid

\* every check before the expiry passes
ChecksBeforeExpiryPass(c) ==
  /\ c.payload.scheme = c.requirement.scheme
  /\ c.payload.network = c.requirement.network
  /\ c.payload.chainId = c.requirement.chainId
  /\ c.payload.recipient = c.requirement.recipient
  /\ c.payload.asset = c.requirement.asset
  /\ c.paid >= c.price

\* C11: when every other check passes, verifyPayment rejects with 'Payment
\* expired' exactly when the payload has an expiresAt strictly before the
\* current time; with no expiresAt, or one at or after the current time, it
\* accepts.
C11_ExpiredExactlyWhenBeforeNow ==
  vp.called /\ ChecksBeforeExpiryPass(vp)
    => IF vp.payload.expiresAt # NoExpiry /\ vp.payload.expiresAt < vp.now
         THEN ~vp.result.valid /\ vp.result.reason = "Payment expired"
         ELSE vp.result.valid

\* a payload that expires at the very time of the call is accepted
C11_Witness ==
  /\ vp.called /\ ChecksBeforeExpiryPass(vp)
  /\ vp.now = 1 /\ vp.payload.expiresAt = 1
  /\ vp.result.valid

\* C12: verifyPayment keeps no state between calls: a payload verified again
\* against the same requirement at the same time gets the same result as
\* before, and a result that is valid carries the amount, the recipient and
\* the nonce of the payload in its details.
C12_SameCallSameResult ==
  vp.called /\ vp'.called /\ vp'.payload = vp.payload
     /\ vp'.requirement = vp.requirement /\ vp'.now = vp.now
    => vp'.result = vp.result

C12_DetailsEchoPayload ==
  vp.called /\ vp.result.valid
    => /\ vp.result.details.amount = vp.payload.amount
       /\ vp.result.details.recipient = vp.payload.recipient
       /\ vp.result.details.nonce = vp.payload.nonce

GateKey == gate.req.method \o " " \o gate.req.path

GateGuarded == gate.called /\ GateKey \in DOMAIN gate.routes

\* the price of the route, in microSTX
GatePrice == IF GateKey = "GET /paid-endpoint" THEN 1000 ELSE 10000

\* the header is an encoded payload
GateDecodable == gate.kind = "payload"

\* the payload in the header meets the requirement of the route
GateVerified ==
  /\ GateDecodable
  /\ gate.payload.scheme = "exact" /\ gate.payload.network = "stacks"
  /\ gate.payload.chainId = "TESTNET" /\ gate.payload.recipient = RECIPIENT
  /\ gate.payload.asset = "STX"
  /\ gate.paid >= GatePrice
  /\ gate.payload.expiresAt = NoExpiry \/ gate.payload.expiresAt >= gate.now

\* C13: on a guarded route the downstream handler is invoked at most once,
\* and only when the payment header decoded and the verifier found the
\* payload valid; with no header, an undecodable header or a payload the
\* verifier refuses, the handler is not invoked and a response with a
\* status outside 200..299 is sent.
C13_HandlerOnlyAfterVerification ==
  GateGuarded
    => /\ gate.out.nextCalled \in {0, 1}
       /\ gate.out.nextCalled = 1 => GateVerified
       /\ ~GateVerified
            => /\ gate.out.nextCalled = 0
               /\ gate.out.sent
               /\ gate.out.statusCode \notin 200..299

\* a payment of exactly the price lets the request through to the handler
C13_Witness ==
  /\ GateGuarded /\ GateVerified
  /\ gate.paid = 1000 /\ GateKey = "GET /paid-endpoint"
  /\ gate.out.nextCalled = 1 /\ gate.out.x402Payment.attached
  /\ gate.out.x402Payment.details.amount = <<1, 0, 0, 0>>

\* C14: a request on a guarded route without a payment header is answered
\* 402, with an X-Payment-Required header that is the encoded requirement
\* (scheme exact, network stacks, the recipient of the options) and a body
\* that holds the price and the description of the route.
C14_PaymentRequiredResponse ==
  GateGuarded /\ gate.kind = "none"
    => /\ gate.out.statusCode = 402
       /\ gate.out.nextCalled = 0
       /\ "X-Payment-Required" \in DOMAIN gate.out.headers
       /\ LET header == gate.out.headers["X-Payment-Required"]
          IN /\ header.wellFormed
             /\ {"recipient", "scheme", "network"} \subseteq DOMAIN header.members
             /\ header.members["recipient"]
                  = Str(gate.options.recipientAddress)
             /\ header.members["scheme"] = Str("exact")
             /\ header.members["network"] = Str("stacks")
       /\ gate.out.body.error = "Payment Required"
       /\ gate.out.body.requirement.amount = gate.routes[GateKey].price
       /\ gate.out.body.message = gate.routes[GateKey].description

C14_Witness ==
  /\ GateGuarded /\ gate.kind = "none"
  /\ GateKey = "POST /submit"
  /\ gate.out.statusCode = 402
  /\ gate.out.body.message = "Submit content"
  /\ gate.out.headers["X-Payment-Required"].members["amount"]
       = Str(<<1, 0, 0, 0, 0>>)

\* C15: on a guarded route a payment header that does not decode is
\* answered 400 'Invalid payment header format', the handler is not invoked
\* and no payment is attached; 400 is the answer to no other request, so it
\* is told apart from a payment that is refused.
C15_InvalidHeaderIs400 ==
  GateGuarded
    => /\ gate.kind \in {"garbage", "requirement"}
            => /\ gate.out.statusCode = 400
               /\ gate.out.body.error = "Invalid payment header format"
               /\ gate.out.nextCalled = 0
               /\ ~gate.out.x402Payment.attached
       /\ gate.out.statusCode = 400
            => gate.kind \in {"garbage", "requirement"}

\* JSON that lacks the fields of a payload is refused as undecodable
C15_Witness ==
  /\ GateGuarded /\ gate.kind = "requirement"
  /\ gate.req.headers["x-payment"].wellFormed
  /\ gate.out.statusCode = 400 /\ gate.out.nextCalled = 0

\* C16: a request is guarded exactly when 'METHOD PATH' is a key of the
\* route configuration: every other request, with or without a payment
\* header, has the handler invoked once and no response written, and a
\* request whose key is configured does not reach the handler unpaid.
C16_GuardedExactlyWhenConfigured ==
  gate.called
    => IF GateKey \in DOMAIN gate.routes
         THEN ~GateVerified => gate.out.nextCalled = 0 /\ gate.out.sent
         ELSE /\ gate.out.nextCalled = 1
              /\ ~gate.out.sent
              /\ gate.out.statusCode = 200
              /\ gate.out.headers = EmptyHeaders
              /\ ~gate.out.x402Payment.attached

\* POST on the path of a configured GET passes through, header and all
C16_Witness ==
  /\ gate.called /\ gate.routes = TestRoutes
  /\ gate.req.method = "POST" /\ gate.req.path = "/paid-endpoint"
  /\ gate.kind = "garbage"
  /\ gate.out.nextCalled = 1 /\ ~gate.out.sent

\* ---- the wrapped call `wf`, told without the wrapper's code
\* the first response has come
Answered == wf.called /\ wf.pc \in {"retry", "returned"}

\* the first response is a 402 that names a requirement that decodes
NamesRequirement ==
  Answered /\ wf.first.status = 402 /\ wf.kind = "requirement"

\* the call as the caller made it
CallerCall == [input |-> wf.input, init |-> wf.init]

\* C17: when the response is not a 402, or is a 402 without an
\* X-Payment-Required header, or a 402 whose header does not decode, the
\* wrapper has made one call to the underlying fetch, with the input and
\* the init of the caller, has signed nothing, and returns that response.
C17_PassThroughUnchanged ==
  /\ wf.called => wf.calls[1] = CallerCall
  /\ Answered /\ ~NamesRequirement
       => /\ wf.pc = "returned"
          /\ wf.calls = <<CallerCall>>
          /\ wf.signed = 0
          /\ wf.result = wf.first

\* a 200 that names a requirement within the ceiling is handed back unpaid
C17_Witness ==
  /\ Answered /\ wf.first.status = 200 /\ wf.kind = "requirement"
  /\ wf.price <= wf.max
  /\ wf.init = PostInit
  /\ wf.pc = "returned" /\ wf.result = wf.first /\ Len(wf.calls) = 1

\* C18: when the 402 names a requirement of an amount above
\* maxAutoPayAmount, as integers of minor units, the wrapper signs nothing,
\* makes no second call and returns the 402 it received.
C18_AboveCeilingNotPaid ==
  NamesRequirement /\ wf.price > wf.max
    => /\ wf.pc = "returned"
       /\ wf.signed = 0
       /\ Len(wf.calls) = 1
       /\ wf.result = wf.first

\* 10 against a ceiling of 9: above as integers, below as strings
C18_Witness ==
  /\ NamesRequirement /\ wf.price = 10 /\ wf.max = 9
  /\ wf.config.maxAutoPayAmount = <<9>>
  /\ wf.pc = "returned" /\ wf.result.status = 402 /\ Len(wf.calls) = 1

\* the second call repeats the first and adds the payment header
RetryRepeatsCall ==
  LET retry == wf.calls[2]
  IN /\ retry.input = wf.input
     /\ retry.init.method = wf.init.method
     /\ retry.init.body = wf.init.body
     /\ DOMAIN retry.init.headers = DOMAIN wf.init.headers \cup {"X-Payment"}
     /\ \A h \in DOMAIN wf.init.headers :
          retry.init.headers[h] = wf.init.headers[h]
     /\ retry.init.headers["X-Payment"].wellFormed
     /\ retry.init.headers["X-Payment"].members["amount"]
          = Str(ToDecimal(wf.price))

\* C19: when the 402 names a requirement within the ceiling, the wrapper
\* signs one payment and calls once more, with the method, the headers and
\* the body of the first call and the payment header added, and returns the
\* response of that second call whatever its status; a wrapped call never
\* makes more than two calls nor signs more than one payment.
C19_RetriesOnce ==
  /\ wf.called => Len(wf.calls) <= 2 /\ wf.signed <= 1
  /\ NamesRequirement /\ wf.price <= wf.max
       => /\ Len(wf.calls) = 2
          /\ wf.signed = 1
          /\ RetryRepeatsCall
          /\ wf.pc = "returned" => wf.result.id = 2

\* the retry of a POST is answered 402 again, and that 402 is returned
C19_Witness ==
  /\ NamesRequirement /\ wf.price = 9 /\ wf.max = 10
  /\ wf.init = PostInit
  /\ wf.pc = "returned"
  /\ wf.result.id = 2 /\ wf.result.status = 402
  /\ wf.result.headers # EmptyHeaders
  /\ Len(wf.calls) = 2
  /\ wf.calls[2].init.headers["Content-Type"] = "application/json"

\* C20: decoding the encoding of a payment payload, or of a payment
\* requirement, succeeds and gives back a value equal to the one encoded,
\* field by field, the optional fields that are present included.
C20_RoundTrip ==
  codec.called
    => /\ codec.decoded.ok
       /\ DOMAIN codec.decoded.value = DOMAIN codec.x
       /\ \A k \in DOMAIN codec.x : codec.decoded.value[k] = codec.x[k]

\* a payload with an expiry, and with a nonce of two digits, is back whole
C20_Witness ==
  /\ codec.called /\ codec.kind = "payload"
  /\ codec.x.expiresAt = 2 /\ codec.x.nonce = 42
  /\ codec.x.amount = <<1, 0>>
  /\ codec.encoded.members["nonce"] = Num(<<4, 2>>)
  /\ codec.decoded.ok /\ codec.decoded.value.expiresAt = 2

\* the handler of slot p has just returned an error
ReturnsError(p) ==
  /\ reqs'[p].pc = "done"
  /\ reqs'[p].out \notin {"ok", NONE}

\* C21: startTask and submitResult called with an agent other than the
\* task's assigned agent, and acceptBid, rejectResult, closeTask and
\* cancelTask called with an address other than the task's poster, return an
\* error in the step of the call and leave every task as it was, whatever
\* the task's status; a request of these operations that gets past its
\* checks carries the task's agent, or the task's poster.
C21_WrongActorRefused ==
  [][/\ \A p \in Slots, t \in TaskIds, a \in AgentIds :
          /\ \/ BeginStartTask(p, t, a)
             \/ \E x \in Results : BeginSubmitResult(p, t, a, x)
          /\ tasks[t].assignedAgent # a
          => ReturnsError(p) /\ tasks' = tasks
     /\ \A p \in Slots, t \in TaskIds, a \in Addresses :
          /\ \/ \E b \in BidIds : BeginAcceptBid(p, t, b, a)
             \/ BeginRejectResult(p, t, a)
             \/ BeginCloseTask(p, t, a)
             \/ BeginCancelTask(p, t, a)
          /\ tasks[t].posterAddress # a
          => ReturnsError(p) /\ tasks' = tasks
     /\ \A p \in Slots :
          reqs[p].pc = "idle" /\ reqs'[p].pc \notin {"idle", "done"}
            => LET r == reqs'[p]
               IN /\ r.op \in {"startTask", "submitResult"}
                       => r.agentId = tasks[r.taskId].assignedAgent
                  /\ r.op \in {"acceptBid", "rejectResult", "closeTask", "cancelTask"}
                       => r.posterAddress = tasks[r.taskId].posterAddress]_vars

C21_Witness ==
  \E p \in Slots :
    /\ reqs[p].op = "startTask"
    /\ reqs[p].out = "Not assigned to this agent"
    /\ tasks[reqs[p].taskId].status = "assigned"
    /\ tasks[reqs[p].taskId].assignedAgent \in AgentIds

\* C22: a task moves from submitted to completed, and an agent is credited,
\* only in a step of an approve request whose posterAddress is the task's
\* posterAddress; an approve request whose posterAddress is missing or
\* different returns an error and changes neither tasks nor agents.
C22_ApproveOnlyByPoster ==
  [][/\ \A t \in TaskIds :
          tasks[t].status = "submitted" /\ tasks'[t].status = "completed"
            => \E p \in Slots :
                 /\ reqs[p].op = "approveTask" /\ reqs[p].taskId = t
                 /\ reqs[p].posterAddress = tasks[t].posterAddress
     /\ \A a \in AgentIds :
          agents'[a].tasksCompleted # agents[a].tasksCompleted
            => \E p \in Slots :
                 /\ reqs[p].op = "approveTask"
                 /\ reqs[p].posterAddress = tasks[reqs[p].taskId].posterAddress
     /\ \A p \in Slots :
          /\ reqs[p].pc = "idle" /\ reqs'[p].op = "approveTask"
          /\ reqs'[p].pc # "done"
          => reqs'[p].posterAddress = tasks[reqs'[p].taskId].posterAddress]_vars

\* C23: rejectResult by the poster on a submitted task sets the status to
\* assigned, clears the stored result and stores the rejection reason while
\* keeping the assigned agent; the assigned agent of a task rejected in this
\* way passes the checks of submitResult again, and its UPDATE makes the
\* task submitted again with the result of the new request.
C23_RejectThenResubmit ==
  [][\A p \in Slots :
       LET r == reqs[p]
           t == r.taskId
       IN /\ r.op = "rejectResult" /\ r.pc = "rr_update" /\ reqs'[p].pc = "done"
               => /\ reqs'[p].out = "ok"
                  /\ tasks'[t].status = "assigned"
                  /\ tasks'[t].result = NONE
                  /\ tasks'[t].rejectionReason = "reason"
                  /\ tasks'[t].assignedAgent = tasks[t].assignedAgent
          /\ \A u \in TaskIds, x \in Results :
               /\ BeginSubmitResult(p, u, tasks[u].assignedAgent, x)
               /\ tasks[u].status = "assigned"
               /\ tasks[u].rejectionReason # NONE
               => reqs'[p].pc = "sr_update" /\ reqs'[p].result = x
          /\ r.op = "submitResult" /\ r.pc = "sr_update" /\ reqs'[p].pc = "done"
               => /\ reqs'[p].out = "ok"
                  /\ tasks'[t].status = "submitted"
                  /\ tasks'[t].result = r.result
                  /\ tasks'[t].assignedAgent = tasks[t].assignedAgent]_vars

\* a request resubmits another result after a rejection
C23_Witness ==
  \E p \in Slots :
    /\ reqs[p].op = "submitResult" /\ reqs[p].pc = "sr_update"
    /\ tasks[reqs[p].taskId].status = "assigned"
    /\ tasks[reqs[p].taskId].rejectionReason = "reason"
    /\ tasks[reqs[p].taskId].result = NONE
    /\ reqs[p].agentId = tasks[reqs[p].taskId].assignedAgent
    /\ reqs[p].result = "result2"

\* what the claim asks of a review request r before it is stored
Reviewable(r) ==
  /\ r.taskId \in DOMAIN tasks
  /\ tasks[r.taskId].exists
  /\ tasks[r.taskId].status \in {"completed", "closed"}
  /\ tasks[r.taskId].assignedAgent = r.agentId
  /\ tasks[r.taskId].posterAddress = r.posterAddress
  /\ r.rating \in 1..5
  /\ r.comment # <<>>

\* C24: a step stores a review, or changes an agent's avgRating or
\* totalReviews, only for a submitReview request on a completed or closed
\* task whose reviewed agent is the task's assigned agent, whose reviewer is
\* the task's poster, whose rating is between 1 and 5 and whose comment is
\* not empty, and the row stored is the row of that request; a request that
\* misses one of these returns an error when it is checked, and the stored
\* reviews and the agents stay as they were.
C24_ReviewOnlyWhenValid ==
  [][/\ reviews' # reviews
          \/ (\E a \in AgentIds : agents'[a].avgRating # agents[a].avgRating)
          \/ (\E a \in AgentIds : agents'[a].totalReviews # agents[a].totalReviews)
          => \E p \in Slots :
               /\ reqs[p].op = "submitReview" /\ reqs'[p].out = "ok"
               /\ Reviewable(reqs[p])
               /\ reviews' = reviews \cup {[taskId |-> reqs[p].taskId,
                                             agentId |-> reqs[p].agentId,
                                             rating |-> reqs[p].rating]}
     /\ \A p \in Slots :
          /\ reqs[p].op = "submitReview" /\ reqs[p].pc = "rv_getTask"
          /\ reqs'[p] # reqs[p]
          /\ ~Reviewable(reqs[p])
          => ReturnsError(p) /\ reviews' = reviews /\ agents' = agents
     /\ \A p \in Slots :
          /\ reqs[p].pc = "idle" /\ reqs'[p].op = "submitReview"
          /\ reqs'[p].pc = "done"
          => ReturnsError(p) /\ reviews' = reviews /\ agents' = agents]_vars

\* a review of a closed task by its poster is refused for its rating
C24_Witness ==
  \E p \in Slots :
    /\ reqs[p].op = "submitReview"
    /\ reqs[p].out = "Rating must be between 1 and 5"
    /\ tasks[reqs[p].taskId].status = "closed"
    /\ reviews = {}

ReviewsOfPair(t, a) == {x \in reviews : x.taskId = t /\ x.agentId = a}

ReviewsOfAgent(a) == {x \in reviews : x.agentId = a}

\* a submitReview for agent a has inserted its row and has not ended
ReviewInFlight(a) ==
  \E p \in Slots :
    /\ reqs[p].op = "submitReview" /\ reqs[p].agentId = a
    /\ reqs[p].pc \in {"rv_select", "rv_update", "rv_commit"}

\* C25: the reviews table never holds two rows of the same task and agent; a
\* submitReview that reaches its INSERT while a row of its task and agent is
\* stored, whether the first request ended before it began or ran with it,
\* returns 'Already reviewed this task' and stores nothing; and while an
\* agent has one stored review and no review in progress, its totalReviews
\* is 1 and its avgRating is the rating of that review.
C25_OneReviewPerTaskAndAgent ==
  [][/\ \A t \in ReviewTaskIds, a \in AgentIds :
          Cardinality({x \in reviews' : x.taskId = t /\ x.agentId = a}) <= 1
     /\ \A p \in Slots :
          /\ reqs[p].op = "submitReview" /\ reqs[p].pc = "rv_insert"
          /\ reqs'[p] # reqs[p]
          /\ ReviewsOfPair(reqs[p].taskId, reqs[p].agentId) # {}
          => /\ reqs'[p].pc = "done"
             /\ reqs'[p].out = "Already reviewed this task"
             /\ reviews' = reviews /\ agents' = agents
     /\ \A a \in AgentIds :
          (Cardinality(ReviewsOfAgent(a)) = 1 /\ ~ReviewInFlight(a))'
            => \E x \in reviews' :
                 /\ x.agentId = a
                 /\ agents'[a].totalReviews = 1
                 /\ agents'[a].avgRating = 10 * x.rating]_vars

\* the second of two reviews of the same task and agent has been refused
C25_Witness ==
  \E p \in Slots, q \in Slots :
    /\ p # q
    /\ reqs[p].op = "submitReview" /\ reqs[p].out = "ok"
    /\ reqs[q].op = "submitReview" /\ reqs[q].out = "Already reviewed this task"
    /\ reqs[q].taskId = reqs[p].taskId
    /\ Cardinality(ReviewsOfPair(reqs[p].taskId, "a1")) = 1

\* C26: whenever no submitReview is in flight, every agent's totalReviews is
\* the number of its stored reviews and its avgRating is the mean of their
\* ratings (0 without reviews).
C26_StatsMatchReviews ==
  InFlight("submitReview") = 0
    => \A a \in AgentIds :
         /\ agents[a].totalReviews = Cardinality(ReviewsOfAgent(a))
         /\ agents[a].avgRating * Cardinality(ReviewsOfAgent(a))
              = 10 * SumRatings(ReviewsOfAgent(a))
         /\ ReviewsOfAgent(a) = {} => agents[a].avgRating = 0

\* request p returns in this step, and returns ok
Succeeds(p, op) ==
  /\ reqs[p].op = op /\ reqs[p].pc \notin {"idle", "done"}
  /\ reqs'[p].pc = "done" /\ reqs'[p].out = "ok"

\* request p enters the handler in this step and passes its first checks
Proceeds(p) == reqs'[p].pc \notin {"idle", "done"}

\* C27: the steps of the lifecycle scenario succeed in order.  On a task of
\* bounty 0.020 STX: a bid on an open or bidding task is taken up and leaves
\* the task bidding; the poster's acceptBid of the first bid is taken up and
\* leaves the task assigned to the bidder; startTask by that agent leaves it
\* in-progress; submitResult leaves it submitted; the poster's approve leaves
\* it completed with platformFee 0.000200 and credits the agent one task and
\* 0.019800; closeTask by the poster leaves it closed; a first review of
\* rating 5 gives the agent avgRating 5 and totalReviews 1.  At the end of
\* the scenario the agent has tasksCompleted 1, totalEarned 0.019800,
\* avgRating 5, totalReviews 1 and the task has platformFee 0.000200.
C27_LifecycleScenario ==
  [][\A p \in Slots, t \in TaskIds :
       LET task == tasks[t]
           agent == task.assignedAgent
           scenario == task.exists /\ task.bountyMicroStx = 20000
       IN /\ \A a \in AgentIds :
               /\ BeginPlaceBid(p, t, a)
               /\ scenario /\ task.status \in {"open", "bidding"}
               => Proceeds(p)
          /\ Succeeds(p, "placeBid") /\ reqs[p].taskId = t /\ scenario
               => tasks'[t].status = "bidding"
          /\ BeginAcceptBid(p, t, 1, task.posterAddress)
               /\ scenario /\ task.status = "bidding"
               => Proceeds(p)
          /\ Succeeds(p, "acceptBid") /\ reqs[p].taskId = t /\ scenario
               => /\ tasks'[t].status = "assigned"
                  /\ tasks'[t].assignedAgent = bids[reqs[p].bidId].agentId
          /\ scenario /\ task.status = "assigned" /\ BeginStartTask(p, t, agent)
               => Proceeds(p)
          /\ Succeeds(p, "startTask") /\ reqs[p].taskId = t /\ scenario
               => tasks'[t].status = "in-progress"
          /\ scenario /\ task.status = "in-progress"
               /\ (\E x \in Results : BeginSubmitResult(p, t, agent, x))
               => Proceeds(p)
          /\ Succeeds(p, "submitResult") /\ reqs[p].taskId = t /\ scenario
               => tasks'[t].status = "submitted"
          /\ BeginApproveRoute(p, t, task.posterAddress, NONE)
               /\ scenario /\ task.status = "submitted"
               => Proceeds(p)
          /\ Succeeds(p, "approveTask") /\ reqs[p].taskId = t /\ scenario
               => /\ tasks'[t].status = "completed"
                  /\ tasks'[t].platformFee = 200
                  /\ agents'[agent].tasksCompleted = agents[agent].tasksCompleted + 1
                  /\ agents'[agent].totalEarned = agents[agent].totalEarned + 19800
          /\ BeginCloseTask(p, t, task.posterAddress)
               /\ scenario /\ task.status = "completed"
               => Proceeds(p)
          /\ Succeeds(p, "closeTask") /\ reqs[p].taskId = t /\ scenario
               => tasks'[t].status = "closed"
          /\ scenario /\ task.status = "closed" /\ agent \in AgentIds
               /\ BeginSubmitReview(p, agent, t, task.posterAddress, 5, <<"o", "k">>)
               => Proceeds(p)
          /\ Succeeds(p, "submitReview") /\ reqs[p].taskId = t /\ scenario
               /\ task.status = "closed" /\ reqs[p].rating = 5 /\ reviews = {}
               => /\ tasks'[t].status = "closed"
                  /\ agents'[agent].avgRating = 50
                  /\ agents'[agent].totalReviews = 1
                  /\ agents'[agent].tasksCompleted = 1
                  /\ agents'[agent].totalEarned = 19800
                  /\ tasks'[t].platformFee = 200]_vars

\* the end of the scenario: two agents have bid, the first bidder has done
\* the task, the poster has approved, closed and then reviewed with rating 5
C27_Witness ==
  \E p \in Slots :
    LET t == reqs[p].taskId
        agent == tasks[t].assignedAgent
    IN /\ reqs[p].op = "submitReview" /\ reqs[p].out = "ok"
       /\ tasks[t].status = "closed"
       /\ tasks[t].bountyMicroStx = 20000
       /\ tasks[t].platformFee = 200
       /\ tasks[t].paymentTxId \in {"sim_", "stx_"}
       /\ Len(bids) = 2 /\ bids[1].agentId # bids[2].agentId
       /\ agent = bids[1].agentId
       /\ reviews = {[taskId |-> t, agentId |-> agent, rating |-> 5]}
       /\ agents[agent].tasksCompleted = 1
       /\ agents[agent].totalEarned = 19800
       /\ agents[agent].avgRating = 50
       /\ agents[agent].totalReviews = 1

\* C28: when the approve request of a submitted task carries a txId, the
\* completed task's paymentTxId is that txId (no sim_ or stx_ identifier is
\* generated), and the fee and the agent's credit are those of any approval.
C28_TxIdRecorded ==
  [][\A p \in Slots :
       Succeeds(p, "approveTask") /\ reqs[p].txId # NONE
         => LET t == reqs[p].taskId
                a == tasks[t].assignedAgent
            IN /\ tasks'[t].status = "completed"
               /\ tasks'[t].paymentTxId = reqs[p].txId
               /\ tasks'[t].platformFee = tasks[t].bountyMicroStx \div 100
               /\ agents'[a].totalEarned =
                    agents[a].totalEarned + tasks[t].bountyMicroStx
                                          - tasks[t].bountyMicroStx \div 100]_vars

\* C29: a failing settlement collaborator neither blocks nor half-completes
\* an approval.  When the health request throws or answers non-ok the
\* approval goes on to its transaction with a sim_ identifier, when it
\* answers ok with a stx_ identifier, and the step writes nothing; an
\* approval that succeeds stores the identifier it chose; every task in
\* status completed or closed has a paymentTxId.
C29_SettlementFailureTolerated ==
  [][/\ \A p \in Slots, h \in HealthAnswers :
          ApproveTaskHealth(p, h)
            => /\ reqs'[p].pc = "ap_task"
               /\ reqs'[p].paymentTxId = IF h = "ok" THEN "stx_" ELSE "sim_"
               /\ tasks' = tasks /\ agents' = agents
     /\ \A p \in Slots :
          reqs[p].op = "approveTask" /\ reqs[p].pc = "ap_health"
            => reqs'[p].pc \in {"ap_health", "ap_task"}
     /\ \A p \in Slots :
          Succeeds(p, "approveTask")
            => /\ reqs[p].paymentTxId \in {"sim_", "stx_"}
               /\ tasks'[reqs[p].taskId].paymentTxId = reqs[p].paymentTxId
     /\ \A t \in TaskIds :
          tasks'[t].status \in {"completed", "closed"}
            => tasks'[t].paymentTxId # NONE]_vars

\* a task approved while the facilitator was failing has been closed
C29_Witness ==
  \E t \in TaskIds :
    /\ tasks[t].status = "closed"
    /\ tasks[t].paymentTxId = "sim_"
    /\ tasks[t].platformFee # NoFee
    /\ agents[tasks[t].assignedAgent].tasksCompleted = 1

\* C30: every approveTask call that has sent its health request eventually
\* returns a task or an error, whatever the facilitator does.
C30_ApproveReturns ==
  \A p \in Slots :
    (reqs[p].op = "approveTask" /\ reqs[p].pc = "ap_health")
      ~> (reqs[p].pc = "done")

\* the webhooks a dispatch has to try: active, subscribed to the event or to
\* every event, and not filtered out by the context
ToDeliver ==
  {w \in WebhookIds :
     LET row == hooks.webhooks[w]
     IN /\ row.active
        /\ hooks.eventType \in row.events \/ "*" \in row.events
        /\ row.filterCategory \in {NONE, hooks.context.category}
             \/ hooks.context.category = NONE
        /\ row.filterTaskId \in {NONE, hooks.context.taskId}
             \/ hooks.context.taskId = NONE}

\* C31: dispatchEvent never rejects: a failing webhook query, a failing or
\* timed-out delivery and a failing last_triggered_at update are logged and
\* change nothing but the log; each matching webhook gets at most one
\* delivery attempt and the others none; when the call resolves after its
\* query succeeded, every matching webhook has had its attempt, failed or
\* not, and every delivery has settled.
C31_DispatchNeverRejects ==
  [][hooks'.called
       => /\ hooks'.pc # "rejected"
          /\ \A w \in WebhookIds :
               /\ hooks'.attempts[w] <= 1
               /\ hooks'.attempts[w] = 1 => w \in ToDeliver'
               /\ hooks'.deliveries[w] = "failed"
                    => w \in hooks'.logged /\ ~hooks'.webhooks[w].lastTriggeredAt
          /\ hooks'.pc = "resolved" /\ "dispatch" \notin hooks'.logged
               => \A w \in ToDeliver' :
                    /\ hooks'.attempts[w] = 1
                    /\ hooks'.deliveries[w] \in {"delivered", "failed"}
          /\ hooks'.pc = "resolved" /\ "dispatch" \in hooks'.logged
               => \A w \in WebhookIds : hooks'.attempts[w] = 0
          /\ UNCHANGED <<tasks, agents, bids, reviews, reqs>>]_vars

\* the call has resolved after the delivery to w1 failed and the one to w2
\* went through
C31_Witness ==
  /\ hooks.called /\ hooks.pc = "resolved"
  /\ hooks.deliveries["w1"] = "failed" /\ hooks.attempts["w1"] = 1
  /\ hooks.deliveries["w2"] = "delivered" /\ hooks.attempts["w2"] = 1
  /\ hooks.webhooks["w2"].lastTriggeredAt

\* C32: no engine mutation commits without its event being dispatched: by
\* the step in which createTask stores a task, and by the step in which a
\* mutating request returns ok (a status change, a bid placed, a bid
\* accepted, a task completed), dispatchEvent has been called.
C32_MutationDispatchesEvent ==
  [][/\ \A t \in TaskIds : ~tasks[t].exists /\ tasks'[t].exists => hooks'.called
     /\ \A p \in Slots :
          /\ reqs[p].pc \notin {"idle", "done"}
          /\ reqs'[p].pc = "done" /\ reqs'[p].out = "ok"
          /\ reqs[p].op \in {"acceptTask", "startTask", "cancelTask",
                              "submitResult", "rejectResult", "approveTask",
                              "closeTask", "placeBid", "acceptBid"}
          => hooks'.called]_vars

NotFoundErrors ==
  {"Task not found", "Bid not found", "Agent not found", "Agent not registered"}

ForbiddenErrors ==
  {"Not assigned to this agent", "Only the poster can cancel this task",
   "Only the poster can reject submissions", "Only the poster can close this task",
   "Only the poster can accept bids", "Only the task poster can approve",
   "Missing posterAddress"}

TaskEndpoints ==
  {"acceptTask", "startTask", "cancelTask", "submitResult", "rejectResult",
   "approveTask", "closeTask", "placeBid", "acceptBid"}

\* C33: a mutating task endpoint answers an engine failure with 404 when
\* the task, the bid or the agent is not found, with 403 when the caller is
\* not the required poster or assigned agent, and with 400 for every other
\* failure (wrong status, duplicate).
C33_StatusByKind ==
  \A p \in Slots :
    /\ reqs[p].pc = "done" /\ reqs[p].op \in TaskEndpoints
    /\ reqs[p].out \notin {"ok", "throw"}
    => reqs[p].code = IF reqs[p].out \in NotFoundErrors THEN 404
                      ELSE IF reqs[p].out \in ForbiddenErrors THEN 403
                      ELSE 400

\* request p ends in this step
Ends(p) == reqs[p].pc \notin {"idle", "done"} /\ reqs'[p].pc = "done"

\* C34: the step in which a transition returns an error changes no stored
\* task, bid, agent or review, and once a transition has failed on a storage
\* error none of its writes is stored: no bid of its agent on its task after
\* a placeBid, the task still open or bidding with no assigned agent after
\* an acceptTask.
C34_FailureWritesNothing ==
  [][\A p \in Slots :
       /\ Ends(p) /\ reqs'[p].out # "ok"
           => UNCHANGED <<tasks, agents, bids, reviews>>
       /\ Ends(p) /\ reqs'[p].out = "throw" /\ reqs[p].op = "placeBid"
           => /\ ExistingBids(reqs[p].taskId, reqs[p].agentId)' = {}
              /\ tasks'[reqs[p].taskId].status = reqs[p].taskStatus
       /\ Ends(p) /\ reqs'[p].out = "throw" /\ reqs[p].op = "acceptTask"
           => /\ tasks'[reqs[p].taskId].status \in {"open", "bidding"}
              /\ tasks'[reqs[p].taskId].assignedAgent = NONE]_vars

\* the timestamp header holds the text of an instant within 5 minutes of
\* `now`, before or after
InWindow(timestamp, now) ==
  /\ Len(timestamp.value) = 2 /\ timestamp.value[1] = "iso"
  /\ now - 300000 <= timestamp.value[2] /\ timestamp.value[2] <= now + 300000

HasStxPrefix(address) ==
  /\ Len(address.value) >= 2 /\ address.value[1] = "S"
  /\ address.value[2] \in {"T", "P"}

\* the outcome the middleware is to have when `none` says which headers
\* count as not there
AuthAsStated(none(_)) ==
  LET h == auth.headers
      out == auth.out
      anonymous == none(h.address) /\ none(h.signature)
      signed == /\ ~none(h.address) /\ ~none(h.signature) /\ ~none(h.timestamp)
                /\ InWindow(h.timestamp, auth.now)
                /\ HasStxPrefix(h.address)
  IN /\ out.next <=> anonymous \/ signed
     /\ signed => out.walletAddress = h.address
     /\ anonymous \/ signed => out.status = 0
     /\ ~(anonymous \/ signed)
          => out.status = 401 /\ ~out.next /\ ~out.walletAddress.present

HeaderAbsent(h) == ~h.present

HeaderEmpty(h) == ~h.present \/ h.value = <<>>

\* C35 as stated: verifyWalletSignature calls next exactly when the address
\* and signature headers are both absent, or address, signature and timestamp
\* are all present, the timestamp parses and lies within 5 minutes of now,
\* and the address starts with ST or SP (the address is then attached);
\* otherwise it responds 401, does not call next and attaches nothing.
C35_NextExactlyWhenAbsent == auth.called => AuthAsStated(HeaderAbsent)

\* C35, amended: the same with a header that is present with an empty value
\* counted as absent.
C35_NextExactlyWhenEmpty == auth.called => AuthAsStated(HeaderEmpty)

\* a signed request at the far edge of the window passes with its address
\* attached, and an anonymous one with empty headers passes too
C35_Witness ==
  /\ auth.called /\ auth.out.next
  /\ auth.out.walletAddress = Header(<<"S", "P", "1">>)
  /\ auth.headers.timestamp = Header(<<"iso", 900000>>)

\* the bids stored for task t
BidsOfTask(t) == {i \in 1..Len(bids) : bids[i].taskId = t}

\* C36: once a task has left open and bidding, no step stores a bid for it
\* or sets its status to bidding, whatever status a placeBid in flight has
\* read; a task that has an assignedAgent never returns to bidding.
C36_PlaceBidSeesCommittedStatus ==
  [][\A t \in TaskIds :
       /\ tasks[t].exists /\ tasks[t].status \notin {"open", "bidding"}
            => /\ BidsOfTask(t)' = BidsOfTask(t)
               /\ tasks'[t].status # "bidding"
       /\ tasks[t].assignedAgent # NONE => tasks'[t].status # "bidding"]_vars

\* C37: in every stored state a task in status open has no bids and a task
\* in status bidding has at least one bid.
C37_OpenHasNoBids ==
  \A t \in TaskIds :
    /\ tasks[t].exists /\ tasks[t].status = "open" => BidsOfTask(t) = {}
    /\ tasks[t].exists /\ tasks[t].status = "bidding" => BidsOfTask(t) # {}

\* C38: a task has an assignedAgent exactly when its status is assigned,
\* in-progress, submitted, completed or closed; that agent is registered;
\* and the agent an acceptBid assigns is the agent of a bid stored for the
\* task.
C38_AssignedAgentMatchesStatus ==
  \A t \in TaskIds :
    tasks[t].exists =>
      /\ tasks[t].assignedAgent # NONE
           <=> tasks[t].status \in {"assigned", "in-progress", "submitted",
                                    "completed", "closed"}
      /\ tasks[t].assignedAgent # NONE
           => /\ tasks[t].assignedAgent \in AgentIds
              /\ agents[tasks[t].assignedAgent].registered
      /\ \A p \in Slots :
           /\ reqs[p].pc = "done" /\ reqs[p].op = "acceptBid"
           /\ reqs[p].out = "ok" /\ reqs[p].taskId = t
           /\ tasks[t].assignedAgent # NONE
           => \E i \in BidsOfTask(t) : bids[i].agentId = tasks[t].assignedAgent

\* C39: a task carries payment metadata (paymentTxId, platformFee,
\* platformWallet, completedAt) and a stored result exactly when its status
\* is completed or closed: a paid task is never in another status, and a
\* completed or closed task lacks neither its metadata nor its result.
C39_PaidExactlyWhenCompleted ==
  \A t \in TaskIds :
    tasks[t].exists =>
      LET task == tasks[t]
          finished == task.status \in {"completed", "closed"}
      IN /\ task.paymentTxId # NONE <=> finished
         /\ task.platformFee # NoFee <=> finished
         /\ task.platformWallet # NONE <=> finished
         /\ task.completedAt # NONE <=> finished
         /\ finished => task.result # NONE

\* C40: when approveTask completes a task of bounty b > 0, the fee it stores
\* on the task and the payout it credits to the agent are the fee and payout
\* of get-fee-split(b), and they are the two amounts pay-task(b) transfers,
\* to the agent and to the platform wallet; pay-task of a zero bounty
\* answers (err u100) and transfers nothing.
C40_EngineMatchesContract ==
  [][\A p \in Slots :
       /\ reqs[p].op = "approveTask" /\ Ends(p) /\ reqs'[p].out = "ok"
       /\ reqs[p].taskAssignedAgent \in AgentIds
       => LET t == reqs[p].taskId
              a == reqs[p].taskAssignedAgent
              b == tasks[t].bountyMicroStx
              fee == tasks'[t].platformFee
              payout == agents'[a].totalEarned - agents[a].totalEarned
              paid == payTask(tasks[t].posterAddress, a, PLATFORM_WALLET, b)
          IN /\ b > 0
             /\ getFeeSplit(b) = [payout |-> payout, fee |-> fee]
             /\ paid.ok
             /\ paid.transfers = <<[to |-> a, amount |-> payout],
                                   [to |-> PLATFORM_WALLET, amount |-> fee]>>
             /\ payTask(tasks[t].posterAddress, a, PLATFORM_WALLET, 0)
                  = [ok |-> FALSE, err |-> 100, transfers |-> <<>>]]_vars
====
